---- MODULE Spec2Model ----
(***************************************************************************)
(* Coal spontaneous-combustion analyzer: the chemical-index functions and  *)
(* the risk scorer of CoalSpontaneousAnalyzer (app.py), the thermal        *)
(* simulator (thermal_simulator.py) and the Flask handlers that chain them.*)
(*                                                                         *)
(* Numbers.  Python floats are modelled as exact rationals                 *)
(* [num |-> n, den |-> d] in lowest terms with d > 0, so that a band       *)
(* comparison, a clamp or a rounding is decided on the exact value.        *)
(* Python's None is the record None; a request field that is not numeric   *)
(* is the record NotNumeric.                                               *)
(***************************************************************************)
EXTENDS Integers, Sequences, FiniteSets, TLC

VARIABLES
    analysis_results,   \* CoalSpontaneousAnalyzer.analysis_results (app.py:48)
    temp_ranges,        \* ThermalSimulator.temp_ranges (thermal_simulator.py:47)
    pyplot,             \* the figures of matplotlib.pyplot (thermal_simulator.py:5)
    pc,                 \* "idle": no call in progress; "done": a call returned
    op,                 \* the function or handler that was called
    args,               \* its arguments (for a handler: the request)
    ret,                \* what it returned (for a handler: the response)
    frame               \* local variables of the call that the result drops

vars == <<analysis_results, temp_ranges, pyplot, pc, op, args, ret, frame>>

-----------------------------------------------------------------------------
(* Exact arithmetic standing for Python float arithmetic.                  *)

None == <<>>
NotNumeric == [text |-> "abc"]

Abs(x) == IF x < 0 THEN -x ELSE x

RECURSIVE GCD(_, _)
GCD(a, b) == IF b = 0 THEN a ELSE GCD(b, a % b)

R(n, d) ==
    LET g == GCD(Abs(n), Abs(d))
        s == IF d < 0 THEN -1 ELSE 1
    IN  [num |-> (s * n) \div g, den |-> (s * d) \div g]

RInt(n) == [num |-> n, den |-> 1]

IsNum(x) == DOMAIN x = {"num", "den"}

RAdd(a, b) ==
    IF a.den = b.den
    THEN R(a.num + b.num, a.den)
    ELSE LET g == GCD(a.den, b.den)
         IN  R(a.num * (b.den \div g) + b.num * (a.den \div g), (a.den \div g) * b.den)

RNeg(a) == [num |-> -a.num, den |-> a.den]

RSub(a, b) == RAdd(a, RNeg(b))

RMul(a, b) ==
    IF a.num = 0 \/ b.num = 0
    THEN RInt(0)
    ELSE LET g1 == GCD(Abs(a.num), b.den)
             g2 == GCD(Abs(b.num), a.den)
         IN  R((a.num \div g1) * (b.num \div g2), (a.den \div g2) * (b.den \div g1))

\* a / b for b # 0 (the callers test the divisor first, as the code does)
RDiv(a, b) ==
    IF b.num < 0
    THEN RMul(a, [num |-> -b.den, den |-> -b.num])
    ELSE RMul(a, [num |-> b.den, den |-> b.num])

\* the sign of a/b - c/d (b, d > 0), by the integer parts and then the
\* reciprocals of the fractional parts: no product is formed
RECURSIVE Cmp(_, _, _, _)
Cmp(a, b, c, d) ==
    LET q1 == a \div b
        q2 == c \div d
        r1 == a - q1 * b
        r2 == c - q2 * d
    IN  IF q1 # q2 THEN (IF q1 < q2 THEN -1 ELSE 1)
        ELSE IF r1 = 0 /\ r2 = 0 THEN 0
        ELSE IF r1 = 0 THEN -1
        ELSE IF r2 = 0 THEN 1
        ELSE Cmp(d, r2, b, r1)

RLt(a, b) == Cmp(a.num, a.den, b.num, b.den) < 0
RLe(a, b) == Cmp(a.num, a.den, b.num, b.den) <= 0
RGt(a, b) == RLt(b, a)
RGe(a, b) == RLe(b, a)

RMax(a, b) == IF RLt(a, b) THEN b ELSE a
RMin(a, b) == IF RLt(b, a) THEN b ELSE a

\* n/d (d > 0) rounded to the nearest integer, ties to the even one
RoundHalfEven(n, d) ==
    LET q == n \div d
        r == n - q * d
    IN  IF 2 * r < d THEN q
        ELSE IF 2 * r > d THEN q + 1
        ELSE IF q % 2 = 0 THEN q ELSE q + 1

RECURSIVE Pow10(_)
Pow10(k) == IF k = 0 THEN 1 ELSE 10 * Pow10(k - 1)

\* Python round(x, ndigits)
round(x, ndigits) ==
    IF x.den = 1
    THEN x
    ELSE R(RoundHalfEven(x.num * Pow10(ndigits), x.den), Pow10(ndigits))

\* Python truthiness of a number-or-None: None and 0 are false
Truthy(x) == IsNum(x) /\ x.num # 0

-----------------------------------------------------------------------------
(* CoalSpontaneousAnalyzer: the four chemical indices (app.py:50-119).     *)

\* the inputs rescaled to sum to 100 whatever their sum
crossing_point_always_rescaled(moisture, volatile_matter, ash, fixed_carbon) ==
    LET total == RAdd(RAdd(moisture, volatile_matter), RAdd(ash, fixed_carbon))
        scale(v) == IF RGt(total, RInt(0))
                    THEN RMul(RDiv(v, total), RInt(100))
                    ELSE v
        cpt == RAdd(RAdd(RSub(RAdd(RInt(150), RMul(R(3, 10), scale(ash))),
                              RMul(R(5, 10), scale(volatile_matter))),
                         RMul(R(2, 10), scale(moisture))),
                    RMul(R(1, 10), scale(fixed_carbon)))
    IN  RMax(RInt(120), RMin(RInt(200), cpt))

\* the formula of line 69 without the bounds of line 71
crossing_point_unbounded(moisture, volatile_matter, ash, fixed_carbon) ==
    LET total == RAdd(RAdd(moisture, volatile_matter), RAdd(ash, fixed_carbon))
        scale(v) == IF RGt(total, RInt(100))
                    THEN RMul(RDiv(v, total), RInt(100))
                    ELSE v
    IN  RAdd(RAdd(RSub(RAdd(RInt(150), RMul(R(3, 10), scale(ash))),
                       RMul(R(5, 10), scale(volatile_matter))),
                  RMul(R(2, 10), scale(moisture))),
             RMul(R(1, 10), scale(fixed_carbon)))

crossing_point_temperature(moisture, volatile_matter, ash, fixed_carbon) ==
    LET total == RAdd(RAdd(moisture, volatile_matter), RAdd(ash, fixed_carbon))
        scale(v) == IF RGt(total, RInt(100))
                    THEN RMul(RDiv(v, total), RInt(100))
                    ELSE v
        cpt == RAdd(RAdd(RSub(RAdd(RInt(150), RMul(R(3, 10), scale(ash))),
                              RMul(R(5, 10), scale(volatile_matter))),
                         RMul(R(2, 10), scale(moisture))),
                    RMul(R(1, 10), scale(fixed_carbon)))
    IN  RMax(RInt(120), RMin(RInt(200), cpt))

\* rounded to one decimal instead of two
liability_index_round1(moisture, volatile_matter, ash) ==
    IF ash.num = 0
    THEN None
    ELSE round(RDiv(RMul(moisture, volatile_matter), ash), 1)

liability_index(moisture, volatile_matter, ash) ==
    IF ash.num = 0
    THEN None
    ELSE round(RDiv(RMul(moisture, volatile_matter), ash), 2)

\* the divisor taken as ash, not ash + 1
wits_index_div_ash(moisture, volatile_matter, ash, oxygen) ==
    IF ash.num = 0
    THEN None
    ELSE round(RDiv(RMul(RAdd(moisture, volatile_matter), oxygen), ash), 2)

wits_index(moisture, volatile_matter, ash, oxygen) ==
    LET divisor == RAdd(ash, RInt(1))
    IN  IF divisor.num = 0
        THEN None       \* ZeroDivisionError, caught: returns None
        ELSE round(RDiv(RMul(RAdd(moisture, volatile_matter), oxygen), divisor), 2)

olpinski_index(moisture, volatile_matter, ash) ==
    IF RAdd(ash, volatile_matter).num = 0
    THEN None
    ELSE round(RDiv(moisture, RAdd(ash, volatile_matter)), 3)

-----------------------------------------------------------------------------
(* CoalSpontaneousAnalyzer.risk_assessment (app.py:121-195).  A risk       *)
(* factor text is the sequence of its words, so that the substring tests   *)
(* of generate_recommendations can be made on it.                          *)

cpt_band(cpt) ==
    IF Truthy(cpt)
    THEN IF RLt(cpt, RInt(140))
         THEN [points |-> 40,
               factors |-> << <<"Very", "High", "CPT", "Risk", "(CPT", "<", "140C)">> >>]
         ELSE IF RLt(cpt, RInt(150))
         THEN [points |-> 30,
               factors |-> << <<"High", "CPT", "Risk", "(CPT", "140-150C)">> >>]
         ELSE IF RLt(cpt, RInt(160))
         THEN [points |-> 20,
               factors |-> << <<"Moderate", "CPT", "Risk", "(CPT", "150-160C)">> >>]
         ELSE [points |-> 10,
               factors |-> << <<"Low", "CPT", "Risk", "(CPT", ">", "160C)">> >>]
    ELSE [points |-> 0, factors |-> <<>>]

li_band(li) ==
    IF Truthy(li)
    THEN IF RGt(li, RInt(2))
         THEN [points |-> 25,
               factors |-> << <<"High", "Liability", "Index", "Risk", "(LI", ">", "2.0)">> >>]
         ELSE IF RGt(li, RInt(1))
         THEN [points |-> 15,
               factors |-> << <<"Moderate", "Liability", "Index", "Risk", "(LI", "1.0-2.0)">> >>]
         ELSE [points |-> 5,
               factors |-> << <<"Low", "Liability", "Index", "Risk", "(LI", "<", "1.0)">> >>]
    ELSE [points |-> 0, factors |-> <<>>]

wits_band(wits) ==
    IF Truthy(wits)
    THEN IF RGt(wits, RInt(5))
         THEN [points |-> 20,
               factors |-> << <<"High", "WITS", "Index", "Risk", "(WITS", ">", "5.0)">> >>]
         ELSE IF RGt(wits, RInt(2))
         THEN [points |-> 10,
               factors |-> << <<"Moderate", "WITS", "Index", "Risk", "(WITS", "2.0-5.0)">> >>]
         ELSE [points |-> 5,
               factors |-> << <<"Low", "WITS", "Index", "Risk", "(WITS", "<", "2.0)">> >>]
    ELSE [points |-> 0, factors |-> <<>>]

\* the bonus given from 30 degrees on, not above 30
ambient_band_from_30(ambient_temp) ==
    IF RGe(ambient_temp, RInt(30))
    THEN [points |-> 15,
          factors |-> << <<"High", "Ambient", "Temperature", "Risk", "(>", "30C)">> >>]
    ELSE [points |-> 0, factors |-> <<>>]

ambient_band(ambient_temp) ==
    IF RGt(ambient_temp, RInt(30))
    THEN [points |-> 15,
          factors |-> << <<"High", "Ambient", "Temperature", "Risk", "(>", "30C)">> >>]
    ELSE [points |-> 0, factors |-> <<>>]

\* the bonus given up to 0.5 m/s, not below 0.5
ventilation_band_up_to_half(ventilation_rate) ==
    IF RLe(ventilation_rate, R(5, 10))
    THEN [points |-> 15,
          factors |-> << <<"Poor", "Ventilation", "Risk", "(<", "0.5", "m/s)">> >>]
    ELSE [points |-> 0, factors |-> <<>>]

ventilation_band(ventilation_rate) ==
    IF RLt(ventilation_rate, R(5, 10))
    THEN [points |-> 15,
          factors |-> << <<"Poor", "Ventilation", "Risk", "(<", "0.5", "m/s)">> >>]
    ELSE [points |-> 0, factors |-> <<>>]

\* app.py:176-188: the category of an integer chemical score
risk_category(risk_score) ==
    IF risk_score >= 80 THEN [overall_risk |-> "CRITICAL", color |-> "danger"]
    ELSE IF risk_score >= 60 THEN [overall_risk |-> "HIGH", color |-> "warning"]
    ELSE IF risk_score >= 40 THEN [overall_risk |-> "MODERATE", color |-> "info"]
    ELSE [overall_risk |-> "LOW", color |-> "success"]

\* the olpinski index scored as well: 10 points above 0.5
risk_assessment_with_olpinski(cpt, li, wits, oi, ambient_temp, ventilation_rate) ==
    LET points == cpt_band(cpt).points + li_band(li).points + wits_band(wits).points
                  + (IF Truthy(oi) /\ RGt(oi, R(5, 10)) THEN 10 ELSE 0)
                  + ambient_band(ambient_temp).points
                  + ventilation_band(ventilation_rate).points
    IN  [overall_risk |-> risk_category(points).overall_risk,
         risk_score |-> points,
         risk_factors |->
            cpt_band(cpt).factors \o li_band(li).factors \o wits_band(wits).factors
            \o ambient_band(ambient_temp).factors
            \o ventilation_band(ventilation_rate).factors,
         color |-> risk_category(points).color]

\* the score cut off at 100
risk_assessment_capped(cpt, li, wits, oi, ambient_temp, ventilation_rate) ==
    LET c == cpt_band(cpt)
        l == li_band(li)
        w == wits_band(wits)
        a == ambient_band(ambient_temp)
        v == ventilation_band(ventilation_rate)
        total == c.points + l.points + w.points + a.points + v.points
        risk_score == IF total > 100 THEN 100 ELSE total
        cat == risk_category(risk_score)
    IN  [overall_risk |-> cat.overall_risk,
         risk_score |-> risk_score,
         risk_factors |-> c.factors \o l.factors \o w.factors \o a.factors \o v.factors,
         color |-> cat.color]

risk_assessment(cpt, li, wits, oi, ambient_temp, ventilation_rate) ==
    LET c == cpt_band(cpt)
        l == li_band(li)
        w == wits_band(wits)
        a == ambient_band(ambient_temp)
        v == ventilation_band(ventilation_rate)
        risk_score == c.points + l.points + w.points + a.points + v.points
        risk_factors == c.factors \o l.factors \o w.factors \o a.factors \o v.factors
        cat == risk_category(risk_score)
    IN  [overall_risk |-> cat.overall_risk,
         risk_score |-> risk_score,
         risk_factors |-> risk_factors,
         color |-> cat.color]

-----------------------------------------------------------------------------
(* CoalSpontaneousAnalyzer.generate_recommendations (app.py:197-236).      *)

\* str(risk_factors): the words of all the factors, a "," between two factors
RECURSIVE str(_)
str(risk_factors) ==
    IF risk_factors = <<>> THEN <<>>
    ELSE IF Len(risk_factors) = 1 THEN Head(risk_factors)
    ELSE Head(risk_factors) \o <<",">> \o str(Tail(risk_factors))

\* a test for the first word of the pattern alone
ContainsFirstWord(text, pattern) ==
    \E i \in 1..Len(text) : text[i] = pattern[1]

\* Python's  pattern in text,  on sequences of words
Contains(text, pattern) ==
    \E i \in 1..(Len(text) - Len(pattern) + 1) :
        SubSeq(text, i, i + Len(pattern) - 1) = pattern

URGENT_RECOMMENDATIONS ==
    << "Implement immediate monitoring systems for temperature and gas emissions",
       "Increase ventilation rates to minimum 1.0 m/s",
       "Consider water spraying or foam injection for temperature control",
       "Establish regular thermal imaging surveys",
       "Implement CO monitoring systems" >>

GENERAL_RECOMMENDATIONS ==
    << "Regular inspection of coal stockpiles every 2-4 hours",
       "Maintain maximum pile height of 3-4 meters",
       "Ensure proper drainage to prevent moisture accumulation",
       "Consider coal blending to reduce volatile matter content" >>

DEFAULT_RECOMMENDATIONS ==
    << "Continue regular monitoring procedures",
       "Maintain current storage practices",
       "Review conditions monthly" >>

generate_recommendations(risk_level, risk_factors, cpt) ==
    LET r1 == IF risk_level \in {"CRITICAL", "HIGH"}
              THEN URGENT_RECOMMENDATIONS ELSE <<>>
        r2 == IF risk_level \in {"CRITICAL", "HIGH", "MODERATE"}
              THEN GENERAL_RECOMMENDATIONS ELSE <<>>
        r3 == IF Contains(str(risk_factors), <<"Poor", "Ventilation">>)
              THEN <<"Install or upgrade ventilation systems immediately">> ELSE <<>>
        r4 == IF Contains(str(risk_factors), <<"High", "Ambient", "Temperature">>)
              THEN <<"Implement cooling measures during hot weather">> ELSE <<>>
        r5 == IF Truthy(cpt) /\ RLt(cpt, RInt(145))
              THEN <<"Consider relocating coal to cooler storage areas">> ELSE <<>>
        recommendations == r1 \o r2 \o r3 \o r4 \o r5
    IN  IF recommendations = <<>> THEN DEFAULT_RECOMMENDATIONS ELSE recommendations

-----------------------------------------------------------------------------
(* ThermalSimulator.assess_thermal_risk (thermal_simulator.py:353-400).    *)

\* f"{x:.1f}"
Fmt1(x) ==
    LET t == RoundHalfEven(x.num * 10, x.den)
        a == Abs(t)
    IN  (IF t < 0 THEN "-" ELSE "") \o ToString(a \div 10) \o "." \o ToString(a % 10)

max_temp_band(max_temp) ==
    IF RGt(max_temp, RInt(120))
    THEN [points |-> 40,
          factors |-> << <<"Critical", "hot", "spots", "detected",
                           "(" \o Fmt1(max_temp) \o "C)">> >>]
    ELSE IF RGt(max_temp, RInt(80))
    THEN [points |-> 30,
          factors |-> << <<"Dangerous", "temperatures", "observed",
                           "(" \o Fmt1(max_temp) \o "C)">> >>]
    ELSE IF RGt(max_temp, RInt(50))
    THEN [points |-> 20,
          factors |-> << <<"Elevated", "temperatures", "detected",
                           "(" \o Fmt1(max_temp) \o "C)">> >>]
    ELSE [points |-> 0, factors |-> <<>>]

avg_temp_band(avg_temp) ==
    IF RGt(avg_temp, RInt(45))
    THEN [points |-> 15,
          factors |-> << <<"High", "average", "temperature",
                           "(" \o Fmt1(avg_temp) \o "C)">> >>]
    ELSE [points |-> 0, factors |-> <<>>]

critical_area_band(critical_percentage) ==
    IF RGt(critical_percentage, RInt(20))
    THEN [points |-> 20,
          factors |-> << <<"Large", "critical", "temperature", "zone",
                           "(" \o Fmt1(critical_percentage) \o "%)">> >>]
    ELSE IF RGt(critical_percentage, RInt(10))
    THEN [points |-> 10,
          factors |-> << <<"Moderate", "critical", "temperature", "zone",
                           "(" \o Fmt1(critical_percentage) \o "%)">> >>]
    ELSE [points |-> 0, factors |-> <<>>]

\* the lower band entered from 5 hot spots on, not above 5
hot_spot_band_from_5(hot_spots) ==
    IF hot_spots > 10
    THEN [points |-> 15,
          factors |-> << <<"Multiple", "hot", "spots", "detected",
                           "(" \o ToString(hot_spots) \o ")">> >>]
    ELSE IF hot_spots >= 5
    THEN [points |-> 8,
          factors |-> << <<"Several", "hot", "spots", "present",
                           "(" \o ToString(hot_spots) \o ")">> >>]
    ELSE [points |-> 0, factors |-> <<>>]

hot_spot_band(hot_spots) ==
    IF hot_spots > 10
    THEN [points |-> 15,
          factors |-> << <<"Multiple", "hot", "spots", "detected",
                           "(" \o ToString(hot_spots) \o ")">> >>]
    ELSE IF hot_spots > 5
    THEN [points |-> 8,
          factors |-> << <<"Several", "hot", "spots", "present",
                           "(" \o ToString(hot_spots) \o ")">> >>]
    ELSE [points |-> 0, factors |-> <<>>]

Min2(a, b) == IF a < b THEN a ELSE b

assess_thermal_risk(temperature_map, temp_stats) ==
    LET m == max_temp_band(temp_stats.max_temp)
        a == avg_temp_band(temp_stats.avg_temp)
        c == critical_area_band(temp_stats.critical_area_percentage)
        h == hot_spot_band(temp_stats.hot_spot_count)
        thermal_risk_score == m.points + a.points + c.points + h.points
    IN  [thermal_risk_score |-> Min2(thermal_risk_score, 100),
         thermal_risk_factors |-> m.factors \o a.factors \o c.factors \o h.factors,
         temperature_statistics |-> temp_stats]

-----------------------------------------------------------------------------
(* ThermalSimulator.simulate_thermal_distribution                          *)
(* (thermal_simulator.py:165-227).  An image is                            *)
(*   [decodable, height, width, gray]                                      *)
(* where gray is the grayscale value (0..255) of a grid of sampled pixels, *)
(* a sequence of rows; every field has the shape of that grid.  The random *)
(* draws of one call are its argument rnd.                                 *)

Rows(field) == Len(field)
Cols(field) == Len(field[1])
Shape(field) == <<Rows(field), Cols(field)>>
Cells(field) == {<<i, j>> : i \in 1..Rows(field), j \in 1..Cols(field)}

\* the field g(field[i][j], i, j)
MapField(g(_, _, _), field) ==
    [i \in 1..Rows(field) |-> [j \in 1..Cols(field) |-> g(field[i][j], i, j)]]

RECURSIVE FoldCells(_, _, _, _)
FoldCells(g(_, _), base, field, cells) ==
    IF cells = {} THEN base
    ELSE LET c == CHOOSE x \in cells : TRUE
         IN  g(field[c[1]][c[2]], FoldCells(g, base, field, cells \ {c}))

FieldMin(field) == FoldCells(RMin, field[1][1], field, Cells(field))
FieldMax(field) == FoldCells(RMax, field[1][1], field, Cells(field))

\* np.clip(v, lo, hi)
clip(v, lo, hi) == RMax(lo, RMin(hi, v))

\* cv2.GaussianBlur: every output cell is a weighted mean, with positive
\* weights, of cells of the input, hence a value between the least and the
\* greatest input cell; weight[i][j] in [0,1] says where between them.
GaussianBlur(field, weight) ==
    LET lo == FieldMin(field)
        hi == FieldMax(field)
    IN  MapField(LAMBDA v, i, j : RAdd(lo, RMul(weight[i][j], RSub(hi, lo))), field)

\* the pixel of the image that the cell (i, j) of the grid samples
PixelX(image, j) == ((2 * j - 1) * image.width) \div (2 * Cols(image.gray))
PixelY(image, i) == ((2 * i - 1) * image.height) \div (2 * Rows(image.gray))

\* cv2.circle(hot_spots, (x, y), size, intensity, -1), one spot after another:
\* a pixel keeps the intensity of the last disc drawn over it, or 0
Covers(image, sp, i, j) ==
    (PixelX(image, j) - sp.x) * (PixelX(image, j) - sp.x)
    + (PixelY(image, i) - sp.y) * (PixelY(image, i) - sp.y)
    <= sp.size * sp.size

DrawSpots(image, spots) ==
    MapField(LAMBDA v, i, j :
                LET over == {k \in 1..Len(spots) : Covers(image, spots[k], i, j)}
                IN  IF over = {} THEN RInt(0)
                    ELSE spots[CHOOSE k \in over : \A m \in over : m <= k].intensity,
             image.gray)

\* thermal_simulator.py:178-185: the blurred inverted brightness
heat_diffusion_of(image, rnd) ==
    GaussianBlur(MapField(LAMBDA v, i, j : RSub(RInt(1), R(v, 255)), image.gray),
                 rnd.diffusion_weight)

\* thermal_simulator.py:188-201: the blurred discs
hot_spots_of(image, rnd) ==
    GaussianBlur(DrawSpots(image, rnd.spots), rnd.spot_weight)

\* line 204 without its np.clip
thermal_map_unclipped(image, rnd) ==
    LET heat_diffusion == heat_diffusion_of(image, rnd)
        hot_spots == hot_spots_of(image, rnd)
    IN  MapField(LAMBDA v, i, j : RAdd(v, RMul(hot_spots[i][j], R(4, 10))),
                 heat_diffusion)

\* thermal_simulator.py:178-204
thermal_map_of(image, rnd) ==
    LET inverted == MapField(LAMBDA v, i, j : RSub(RInt(1), R(v, 255)), image.gray)
        heat_diffusion == GaussianBlur(inverted, rnd.diffusion_weight)
        hot_spots == GaussianBlur(DrawSpots(image, rnd.spots), rnd.spot_weight)
    IN  MapField(LAMBDA v, i, j :
                    clip(RAdd(v, RMul(hot_spots[i][j], R(4, 10))), RInt(0), RInt(1)),
                 heat_diffusion)

\* the same without the final np.clip of line 221
temperature_map_of_unclipped(thermal_map, env_params) ==
    LET base_temp == env_params.ambient_temperature
        humidity_factor ==
            RAdd(RInt(1), RDiv(RSub(env_params.relative_humidity, RInt(50)), RInt(200)))
        wind_factor ==
            RMax(R(5, 10), RSub(RInt(1), RDiv(env_params.wind_speed, RInt(5))))
        pile_factor ==
            RAdd(RInt(1), RDiv(RSub(env_params.pile_height, RInt(3)), RInt(10)))
        duration_factor ==
            RAdd(RInt(1), R(env_params.storage_duration - 1, 50))
        temp_multiplier ==
            RMul(RMul(humidity_factor, wind_factor), RMul(pile_factor, duration_factor))
    IN  MapField(LAMBDA v, i, j :
                    RAdd(base_temp, RMul(RMul(v, RInt(150)), temp_multiplier)),
                 thermal_map)

\* thermal_simulator.py:206-221
temperature_map_of(thermal_map, env_params) ==
    LET base_temp == env_params.ambient_temperature
        max_temp_increase == RInt(150)
        humidity_factor ==
            RAdd(RInt(1), RDiv(RSub(env_params.relative_humidity, RInt(50)), RInt(200)))
        wind_factor ==
            RMax(R(5, 10), RSub(RInt(1), RDiv(env_params.wind_speed, RInt(5))))
        pile_factor ==
            RAdd(RInt(1), RDiv(RSub(env_params.pile_height, RInt(3)), RInt(10)))
        duration_factor ==
            RAdd(RInt(1), R(env_params.storage_duration - 1, 50))
        temp_multiplier ==
            RMul(RMul(humidity_factor, wind_factor), RMul(pile_factor, duration_factor))
    IN  MapField(LAMBDA v, i, j :
                    clip(RAdd(base_temp, RMul(RMul(v, max_temp_increase), temp_multiplier)),
                         base_temp, RAdd(base_temp, RInt(180))),
                 thermal_map)

\* cv2.imread fails, or random.randint(20, side - 20) has an empty range:
\* the exception is caught and (None, None) returned
simulation_fails(image) ==
    \/ ~image.decodable
    \/ image.width - 20 < 20
    \/ image.height - 20 < 20

simulate_thermal_distribution(image, env_params, rnd) ==
    IF simulation_fails(image)
    THEN [thermal_map |-> None, temperature_map |-> None]
    ELSE LET thermal_map == thermal_map_of(image, rnd)
         IN  [thermal_map |-> thermal_map,
              temperature_map |-> temperature_map_of(thermal_map, env_params)]

-----------------------------------------------------------------------------
(* ThermalSimulator: image features, environment and coal properties       *)
(* (thermal_simulator.py:55-163, 287-351).  The random draws of a call are *)
(* its argument u, a record of positions in [0,1]: random.uniform(a, b) at *)
(* the position p is a + (b - a) * p.                                      *)

uniform(a, b, p) == RAdd(a, RMul(p, RSub(b, a)))

\* random.randint(a, b) at the position p
randint(a, b, p) == a + ((b - a) * p.num) \div p.den

\* thermal_simulator.py:189: num_hotspots = random.randint(3, 12)
num_hotspots(p) == randint(3, 12, p)

\* a hot spot with its centre anywhere on the image
hot_spot_anywhere(image, u) ==
    [x |-> randint(0, image.width, u.x),
     y |-> randint(0, image.height, u.y),
     intensity |-> uniform(R(6, 10), RInt(1), u.intensity),
     size |-> randint(15, 40, u.size)]

\* thermal_simulator.py:192-195: the four draws of one hot spot, on an image
\* of at least 40 by 40 pixels
hot_spot(image, u) ==
    [x |-> randint(20, image.width - 20, u.x),
     y |-> randint(20, image.height - 20, u.y),
     intensity |-> uniform(R(6, 10), RInt(1), u.intensity),
     size |-> randint(15, 40, u.size)]

\* np.mean of a field
np_mean(field) ==
    RDiv(FoldCells(RAdd, RInt(0), field, Cells(field)),
         RInt(Cardinality(Cells(field))))

\* analyze_image_features: None when cv2.imread fails; avg_brightness is the
\* mean gray value, the measurements taken by cv2.Laplacian, cv2.Canny and
\* cv2.findContours are the argument measured
analyze_image_features(image, measured) ==
    IF ~image.decodable
    THEN None
    ELSE [avg_brightness |-> np_mean(MapField(LAMBDA v, i, j : RInt(v), image.gray)),
          texture_variance |-> measured.texture_variance,
          avg_particle_size |-> measured.avg_particle_size,
          particle_count |-> measured.particle_count]

\* the catalogue with the ranges of a hot day under the name normal
scenarios_hot_normal ==
    [name \in {"normal", "hot_day", "humid", "poor_ventilation"} |->
        [temp_range |-> <<RInt(35), RInt(45)>>, humidity_range |-> <<RInt(20), RInt(40)>>,
         wind_range |-> <<R(2, 10), RInt(1)>>, oxygen_range |-> <<R(208, 10), RInt(21)>>]]

scenarios ==
    [normal |->
        [temp_range |-> <<RInt(20), RInt(30)>>, humidity_range |-> <<RInt(40), RInt(70)>>,
         wind_range |-> <<R(5, 10), RInt(2)>>, oxygen_range |-> <<R(205, 10), RInt(21)>>],
     hot_day |->
        [temp_range |-> <<RInt(35), RInt(45)>>, humidity_range |-> <<RInt(20), RInt(40)>>,
         wind_range |-> <<R(2, 10), RInt(1)>>, oxygen_range |-> <<R(208, 10), RInt(21)>>],
     humid |->
        [temp_range |-> <<RInt(25), RInt(35)>>, humidity_range |-> <<RInt(80), RInt(95)>>,
         wind_range |-> <<R(1, 10), R(8, 10)>>, oxygen_range |-> <<RInt(20), R(205, 10)>>],
     poor_ventilation |->
        [temp_range |-> <<RInt(22), RInt(32)>>, humidity_range |-> <<RInt(50), RInt(80)>>,
         wind_range |-> <<R(5, 100), R(3, 10)>>, oxygen_range |-> <<R(195, 10), R(202, 10)>>]]

\* lines 136-147 alone, without the adjustments of lines 150-161
base_environmental_parameters(image_features, base_scenario, u) ==
    LET scenario == IF base_scenario \in DOMAIN scenarios
                    THEN scenarios[base_scenario] ELSE scenarios["normal"]
    IN  [ambient_temperature |->
            uniform(scenario.temp_range[1], scenario.temp_range[2], u.temp),
         relative_humidity |->
            uniform(scenario.humidity_range[1], scenario.humidity_range[2], u.humidity),
         wind_speed |-> uniform(scenario.wind_range[1], scenario.wind_range[2], u.wind),
         oxygen_content |->
            uniform(scenario.oxygen_range[1], scenario.oxygen_range[2], u.oxygen),
         atmospheric_pressure |-> uniform(RInt(98), RInt(102), u.pressure),
         pile_height |-> uniform(RInt(2), RInt(8), u.pile),
         storage_duration |-> randint(1, 30, u.duration)]

generate_environmental_parameters(image_features, base_scenario, u) ==
    LET scenario == IF base_scenario \in DOMAIN scenarios
                    THEN scenarios[base_scenario] ELSE scenarios["normal"]
        ambient_temperature == uniform(scenario.temp_range[1], scenario.temp_range[2], u.temp)
        wind_speed == uniform(scenario.wind_range[1], scenario.wind_range[2], u.wind)
        pile_height == uniform(RInt(2), RInt(8), u.pile)
    IN  [ambient_temperature |->
            IF image_features # None /\ RLt(image_features.avg_brightness, RInt(80))
            THEN RAdd(ambient_temperature, uniform(RInt(2), RInt(8), u.dark_temp))
            ELSE ambient_temperature,
         relative_humidity |->
            uniform(scenario.humidity_range[1], scenario.humidity_range[2], u.humidity),
         wind_speed |->
            IF image_features # None /\ RGt(image_features.texture_variance, RInt(500))
            THEN RMul(wind_speed, uniform(R(7, 10), R(9, 10), u.rough_wind))
            ELSE wind_speed,
         oxygen_content |->
            uniform(scenario.oxygen_range[1], scenario.oxygen_range[2], u.oxygen),
         atmospheric_pressure |-> uniform(RInt(98), RInt(102), u.pressure),
         pile_height |->
            IF image_features # None /\ image_features.particle_count > 100
            THEN RAdd(pile_height, uniform(R(5, 10), RInt(2), u.particle_pile))
            ELSE pile_height,
         storage_duration |-> randint(1, 30, u.duration)]

base_properties ==
    [moisture |-> <<RInt(6), RInt(15)>>, volatile_matter |-> <<RInt(25), RInt(45)>>,
     ash |-> <<RInt(8), RInt(25)>>, fixed_carbon |-> <<RInt(35), RInt(60)>>]

\* thermal_simulator.py:300-327: the base values and their adjustments
adjusted_properties(image_features, env_params, u) ==
    LET dark == image_features # None /\ RLt(image_features.avg_brightness, RInt(60))
        rough == image_features # None /\ RGt(image_features.texture_variance, RInt(600))
        fine == image_features # None /\ RLt(image_features.avg_particle_size, RInt(50))
        humid == RGt(env_params.relative_humidity, RInt(70))
        aged == env_params.storage_duration > 15
        base(prop) == uniform(base_properties[prop][1], base_properties[prop][2], u[prop])
        when(cond, a, b, p) == IF cond THEN uniform(a, b, p) ELSE RInt(0)
    IN  [moisture |->
            RSub(RAdd(RAdd(base("moisture"),
                           when(rough, RInt(1), RInt(3), u.rough_moisture)),
                      when(humid, RInt(1), RInt(4), u.humid_moisture)),
                 when(aged, R(5, 10), RInt(2), u.aged_moisture)),
         volatile_matter |->
            RAdd(RAdd(base("volatile_matter"),
                      when(dark, RInt(1), RInt(5), u.dark_volatile_matter)),
                 when(fine, RInt(2), RInt(6), u.fine_volatile_matter)),
         ash |->
            RAdd(RAdd(base("ash"),
                      when(rough, R(5, 10), RInt(2), u.rough_ash)),
                 when(aged, R(2, 10), RInt(1), u.aged_ash)),
         fixed_carbon |->
            RAdd(base("fixed_carbon"),
                 when(dark, RInt(2), RInt(8), u.dark_fixed_carbon))]

\* sum(properties.values())
properties_total(properties) ==
    RAdd(RAdd(properties.moisture, properties.volatile_matter),
         RAdd(properties.ash, properties.fixed_carbon))

\* the properties left as they are
properties_unscaled(properties) == properties

\* thermal_simulator.py:329-334
normalized_properties(properties) ==
    LET total == properties_total(properties)
    IN  IF RGt(total, RInt(0))
        THEN [prop \in DOMAIN properties |->
                 RMul(properties[prop], RDiv(RInt(100), total))]
        ELSE properties

\* thermal_simulator.py:336-340
bounded_properties(properties) ==
    [moisture |-> RMax(RInt(1), RMin(RInt(20), properties.moisture)),
     volatile_matter |-> RMax(RInt(15), RMin(RInt(50), properties.volatile_matter)),
     ash |-> RMax(RInt(5), RMin(RInt(35), properties.ash)),
     fixed_carbon |-> RMax(RInt(25), RMin(RInt(70), properties.fixed_carbon))]

\* properties of nothing
ZERO_PROPERTIES ==
    [moisture |-> RInt(0), volatile_matter |-> RInt(0), ash |-> RInt(0),
     fixed_carbon |-> RInt(0)]

\* thermal_simulator.py:344-351
FALLBACK_PROPERTIES ==
    [moisture |-> RInt(10), volatile_matter |-> RInt(35), ash |-> RInt(15),
     fixed_carbon |-> RInt(40)]

\* a lookup of line 308-327 raises: env_params is not a dict, or a key of
\* image_features or env_params is missing
coal_properties_raise(image_features, env_params) ==
    \/ ~({"relative_humidity", "storage_duration"} \subseteq DOMAIN env_params)
    \/ /\ image_features # None
       /\ ~({"avg_brightness", "texture_variance", "avg_particle_size"}
              \subseteq DOMAIN image_features)

generate_coal_properties_from_image(image_features, env_params, u) ==
    IF coal_properties_raise(image_features, env_params)
    THEN FALLBACK_PROPERTIES
    ELSE bounded_properties(
             normalized_properties(adjusted_properties(image_features, env_params, u)))

-----------------------------------------------------------------------------
(* Temperature statistics (thermal_simulator.py:273-279, app.py:414-439).  *)

CountCells(field, test(_)) ==
    Cardinality({c \in Cells(field) : test(field[c[1]][c[2]])})

\* np.std squared: the mean of the squared deviations from the mean
np_var(field) ==
    LET mean == np_mean(field)
    IN  np_mean(MapField(LAMBDA v, i, j : RMul(RSub(v, mean), RSub(v, mean)), field))

\* v > mean + 2 * std
above_two_std(v, mean, var) ==
    /\ RGt(v, mean)
    /\ RGt(RMul(RSub(v, mean), RSub(v, mean)), RMul(RInt(4), var))

temp_stats_of(temperature_map) ==
    LET mean == np_mean(temperature_map)
        var == np_var(temperature_map)
    IN  [min_temp |-> FieldMin(temperature_map),
         max_temp |-> FieldMax(temperature_map),
         avg_temp |-> mean,
         hot_spot_count |->
            CountCells(temperature_map, LAMBDA v : above_two_std(v, mean, var)),
         critical_area_percentage |->
            R(CountCells(temperature_map, LAMBDA v : RGt(v, RInt(80))) * 100,
              Cardinality(Cells(temperature_map)))]

\* the least, greatest and mean temperature alone, nothing counted
plain_temp_stats(temperature_map) ==
    [min_temp |-> FieldMin(temperature_map),
     max_temp |-> FieldMax(temperature_map),
     avg_temp |-> np_mean(temperature_map),
     hot_spot_count |-> 0,
     critical_area_percentage |-> RInt(0)]

\* app.py:421-427, 432-438, 590-596: the statistics the handlers compute
\* themselves
basic_temp_stats(temperature_map) ==
    LET mean == np_mean(temperature_map)
        var == np_var(temperature_map)
        size == Cardinality(Cells(temperature_map))
    IN  [min_temp |-> FieldMin(temperature_map),
         max_temp |-> FieldMax(temperature_map),
         avg_temp |-> mean,
         hot_spot_count |->
            CountCells(temperature_map, LAMBDA v : above_two_std(v, mean, var)),
         critical_area_percentage |->
            RMul(R(CountCells(temperature_map, LAMBDA v : RGt(v, RInt(80))), size),
                 RInt(100))]

\* create_thermal_visualization: the picture (its base64 text, held in a
\* sequence) and the statistics, or (None, None) when drawing raises
create_thermal_visualization(thermal_map, temperature_map, drawn) ==
    IF drawn
    THEN [thermal_image_b64 |-> <<"iVBORw0KGgo=">>,
          temp_stats |-> temp_stats_of(temperature_map)]
    ELSE [thermal_image_b64 |-> None, temp_stats |-> None]

-----------------------------------------------------------------------------
(* The request handlers of app.py.  A handler is called with its request   *)
(* and the random draws it makes; it gives [response, frame], frame being  *)
(* the values of its local variables.  A handler is written as the chain   *)
(* of its stages: each stage gets the local variables l set so far, sets   *)
(* its own and goes on with the next stage, or ends the request.  The      *)
(* local calls of analyze_thermal_image is the history of the operations   *)
(* of the simulator and the analyzer that it has called, in their order.   *)

\* the local variables l after the assignments of the record new
Set(l, new) ==
    [name \in DOMAIN l \cup DOMAIN new |->
        IF name \in DOMAIN new THEN new[name] ELSE l[name]]

\* data.get(key, default)
get(data, key, default) == IF key \in DOMAIN data THEN data[key] ELSE default

\* float(x): the number, or the exception raised
float(x) ==
    IF IsNum(x) THEN x
    ELSE IF x = None THEN [raised |-> "TypeError"]
    ELSE [raised |-> "ValueError"]

\* every input taken as 0 when absent
manual_inputs_zero_defaults(data) ==
    [name \in {"moisture", "volatile_matter", "ash", "fixed_carbon", "oxygen",
               "ambient_temp", "ventilation_rate"} |->
        float(get(data, name, RInt(0)))]

\* app.py:253-261, 327-333
manual_inputs(data) ==
    [moisture |-> float(get(data, "moisture", RInt(0))),
     volatile_matter |-> float(get(data, "volatile_matter", RInt(0))),
     ash |-> float(get(data, "ash", RInt(0))),
     fixed_carbon |-> float(get(data, "fixed_carbon", RInt(0))),
     oxygen |-> float(get(data, "oxygen", R(209, 10))),
     ambient_temp |-> float(get(data, "ambient_temp", RInt(25))),
     ventilation_rate |-> float(get(data, "ventilation_rate", RInt(1)))]

\* the exception of the first float() that raises, or None
first_raised(inputs) ==
    LET order == <<"moisture", "volatile_matter", "ash", "fixed_carbon", "oxygen",
                   "ambient_temp", "ventilation_rate">>
        bad == {k \in 1..Len(order) : ~IsNum(inputs[order[k]])}
    IN  IF bad = {} THEN None
        ELSE inputs[order[CHOOSE k \in bad : \A m \in bad : k <= m]]

\* app.py:279-284, 344-348; calls is the history of the operations called
manual_recommendations(calculated_indices, assessment) ==
    [calculated_indices |-> calculated_indices,
     risk_assessment |-> assessment,
     recommendations |->
        generate_recommendations(assessment.overall_risk, assessment.risk_factors,
                                 calculated_indices.cpt),
     calls |-> << "crossing_point_temperature", "liability_index", "wits_index",
                  "olpinski_index", "risk_assessment", "generate_recommendations" >>]

\* app.py:272-274, 340-342
manual_risk_assessment(inputs, calculated_indices) ==
    manual_recommendations(
        calculated_indices,
        risk_assessment(calculated_indices.cpt, calculated_indices.liability_index,
                        calculated_indices.wits_index, calculated_indices.olpinski_index,
                        inputs.ambient_temp, inputs.ventilation_rate))

\* app.py:267-283, 335-349: indices, risk assessment and recommendations
manual_analysis(inputs) ==
    manual_risk_assessment(
        inputs,
        [cpt |-> crossing_point_temperature(inputs.moisture, inputs.volatile_matter,
                                            inputs.ash, inputs.fixed_carbon),
         liability_index |->
            liability_index(inputs.moisture, inputs.volatile_matter, inputs.ash),
         wits_index |->
            wits_index(inputs.moisture, inputs.volatile_matter, inputs.ash, inputs.oxygen),
         olpinski_index |->
            olpinski_index(inputs.moisture, inputs.volatile_matter, inputs.ash)])

\* app.py:285-312
results_page(data, inputs, done) ==
    [response |->
        [status |-> 200, template |-> "results.html",
         results |->
            [coal_info |->
                [type |-> get(data, "coal_type", "Unknown"),
                 location |-> get(data, "location", "Not specified")],
             input_data |-> inputs,
             calculated_indices |-> done.calculated_indices,
             risk_assessment |-> done.risk_assessment,
             recommendations |-> done.recommendations]],
     frame |-> Set(inputs, [calls |-> done.calls])]

\* app.py:267-319
analyze_inputs(data, inputs, raised) ==
    IF raised = [raised |-> "ValueError"]
    THEN [response |->
             [status |-> 200, template |-> "index.html",
              error |-> "Please enter valid numeric values for all fields."],
          frame |-> <<>>]
    ELSE IF raised # None
    THEN [response |->
             [status |-> 200, template |-> "index.html",
              error |-> "An error occurred during analysis. Please try again."],
          frame |-> <<>>]
    ELSE results_page(data, inputs, manual_analysis(inputs))

\* app.py:246-319
analyze(data) ==
    analyze_inputs(data, manual_inputs(data), first_raised(manual_inputs(data)))

\* app.py:351-361
api_results(inputs, done) ==
    [response |->
        [status |-> 200,
         json |-> [success |-> TRUE,
                   calculated_indices |-> done.calculated_indices,
                   risk_assessment |-> done.risk_assessment,
                   recommendations |-> done.recommendations]],
     frame |-> Set(inputs, [calls |-> done.calls])]

\* app.py:335-368; the error text is the name of the exception
api_analyze_inputs(inputs, raised) ==
    IF raised # None
    THEN [response |->
             [status |-> 400, json |-> [success |-> FALSE, error |-> raised.raised]],
          frame |-> <<>>]
    ELSE api_results(inputs, manual_analysis(inputs))

\* app.py:321-368
api_analyze(data) ==
    api_analyze_inputs(manual_inputs(data), first_raised(manual_inputs(data)))

\* the category taken above 80, 60 and 40, not from them on
combined_category_above(combined_risk_score) ==
    IF RGt(combined_risk_score, RInt(80))
    THEN [overall_risk |-> "CRITICAL", color |-> "danger"]
    ELSE IF RGt(combined_risk_score, RInt(60))
    THEN [overall_risk |-> "HIGH", color |-> "warning"]
    ELSE IF RGt(combined_risk_score, RInt(40))
    THEN [overall_risk |-> "MODERATE", color |-> "info"]
    ELSE [overall_risk |-> "LOW", color |-> "success"]

\* app.py:478-489: the category of a combined score
combined_category(combined_risk_score) ==
    IF RGe(combined_risk_score, RInt(80))
    THEN [overall_risk |-> "CRITICAL", color |-> "danger"]
    ELSE IF RGe(combined_risk_score, RInt(60))
    THEN [overall_risk |-> "HIGH", color |-> "warning"]
    ELSE IF RGe(combined_risk_score, RInt(40))
    THEN [overall_risk |-> "MODERATE", color |-> "info"]
    ELSE [overall_risk |-> "LOW", color |-> "success"]

THERMAL_RECOMMENDATIONS ==
    << "Implement continuous thermal monitoring with infrared cameras",
       "Establish thermal alert zones around detected hot spots",
       "Consider immediate pile restructuring to break up hot zones" >>

\* scenario.replace('_', ' ').title()
scenario_title(scenario) ==
    CASE scenario = "normal" -> "Normal"
      [] scenario = "hot_day" -> "Hot Day"
      [] scenario = "humid" -> "Humid"
      [] scenario = "poor_ventilation" -> "Poor Ventilation"

\* app.py:514-545: the page of results
results_stage(l) ==
    [response |->
        [status |-> 200, template |-> "thermal_results.html",
         results |->
            [image_info |->
                [filename |-> l.image_name, scenario |-> scenario_title(l.scenario)],
             image_features |-> l.image_features,
             environmental_params |-> l.env_params,
             coal_properties |-> l.coal_properties,
             calculated_indices |->
                [cpt |-> l.cpt, liability_index |-> l.li, wits_index |-> l.wits,
                 olpinski_index |-> l.oi],
             thermal_analysis |->
                [thermal_image |-> l.thermal_image_b64,
                 temperature_stats |-> l.temp_stats,
                 thermal_risk |-> l.thermal_risk],
             combined_risk_assessment |-> l.combined_risk_assessment,
             recommendations |-> l.recommendations]],
     frame |-> l]

\* app.py:500-512
recommendations_stage(l, recommendations) ==
    results_stage(Set(l,
        [recommendations |->
            IF l.thermal_risk.thermal_risk_score > 50
            THEN recommendations \o THERMAL_RECOMMENDATIONS
            ELSE recommendations]))

\* app.py:477-505
category_stage(l, category) ==
    recommendations_stage(
        Set(l, [overall_risk |-> category.overall_risk,
                color |-> category.color,
                calls |-> Append(l.calls, "generate_recommendations"),
                combined_risk_assessment |->
                   [overall_risk |-> category.overall_risk,
                    risk_score |-> l.combined_risk_score,
                    risk_factors |-> l.all_risk_factors,
                    color |-> category.color,
                    standard_risk_score |-> l.standard_risk.risk_score,
                    thermal_risk_score |-> l.thermal_risk.thermal_risk_score]]),
        generate_recommendations(category.overall_risk, l.all_risk_factors, l.cpt))

\* app.py:471-475
combination_stage(l) ==
    category_stage(
        Set(l, [combined_risk_score |->
                   R(l.standard_risk.risk_score + l.thermal_risk.thermal_risk_score, 2),
                all_risk_factors |->
                   l.standard_risk.risk_factors \o l.thermal_risk.thermal_risk_factors]),
        combined_category(
            R(l.standard_risk.risk_score + l.thermal_risk.thermal_risk_score, 2)))

\* app.py:466-469
standard_risk_stage(l) ==
    combination_stage(Set(l,
        [standard_risk |->
            risk_assessment(l.cpt, l.li, l.wits, l.oi,
                            l.env_params.ambient_temperature, l.env_params.wind_speed),
         calls |-> Append(l.calls, "risk_assessment")]))

\* app.py:444-464
indices_stage(l) ==
    standard_risk_stage(Set(l,
        [cpt |-> crossing_point_temperature(l.coal_properties.moisture,
                     l.coal_properties.volatile_matter, l.coal_properties.ash,
                     l.coal_properties.fixed_carbon),
         li |-> liability_index(l.coal_properties.moisture,
                    l.coal_properties.volatile_matter, l.coal_properties.ash),
         wits |-> wits_index(l.coal_properties.moisture,
                      l.coal_properties.volatile_matter, l.coal_properties.ash,
                      l.env_params.oxygen_content),
         oi |-> olpinski_index(l.coal_properties.moisture,
                    l.coal_properties.volatile_matter, l.coal_properties.ash),
         calls |-> l.calls \o <<"crossing_point_temperature", "liability_index",
                                "wits_index", "olpinski_index">>]))

\* app.py:441-442
thermal_risk_stage(l) ==
    indices_stage(Set(l,
        [thermal_risk |-> assess_thermal_risk(l.temperature_map, l.temp_stats),
         calls |-> Append(l.calls, "assess_thermal_risk")]))

\* app.py:414-439: when the call raises (except clause, 429-438) or gives
\* no picture (419-428) the handler computes the statistics itself
statistics_stage(l, visualization) ==
    thermal_risk_stage(Set(l,
        IF "raised" \in DOMAIN visualization
        THEN [thermal_image_b64 |-> None,
              temp_stats |-> basic_temp_stats(l.temperature_map)]
        ELSE IF visualization.thermal_image_b64 = None
        THEN [thermal_image_b64 |-> None,
              temp_stats |-> basic_temp_stats(l.temperature_map)]
        ELSE visualization))

\* a failed simulation replaced by a field of zeros, the request going on
simulation_stage_zero_field(l, sim, outcome) ==
    statistics_stage(
        Set(l, [thermal_map |-> << <<RInt(0)>> >>,
                temperature_map |-> << <<l.env_params.ambient_temperature>> >>,
                calls |-> Append(l.calls, "create_thermal_visualization")]),
        create_thermal_visualization(<< <<RInt(0)>> >>,
                                     << <<l.env_params.ambient_temperature>> >>,
                                     outcome = "drawn"))

\* app.py:409-417; outcome says what becomes of the call of
\* create_thermal_visualization: "drawn", "none" (it returns None, None) or
\* "raised" (an error gets out of it)
simulation_stage(l, sim, outcome) ==
    IF sim.thermal_map = None
    THEN [response |->
             [status |-> 500,
              json |-> [error |-> "Could not simulate thermal distribution"]],
          frame |-> l]
    ELSE statistics_stage(
             Set(l, [thermal_map |-> sim.thermal_map,
                     temperature_map |-> sim.temperature_map,
                     calls |-> Append(l.calls, "create_thermal_visualization")]),
             IF outcome = "raised"
             THEN [raised |-> "Exception"]
             ELSE create_thermal_visualization(sim.thermal_map, sim.temperature_map,
                                               outcome = "drawn"))

\* app.py:406-410
coal_properties_stage(l, image, rnd) ==
    simulation_stage(
        Set(l, [coal_properties |->
                   generate_coal_properties_from_image(l.image_features, l.env_params,
                                                       rnd.coal),
                calls |-> l.calls \o <<"generate_coal_properties_from_image",
                                       "simulate_thermal_distribution">>]),
        simulate_thermal_distribution(image, l.env_params, rnd.sim),
        rnd.visualization)

\* app.py:396-404
features_stage(l, image, rnd) ==
    IF l.image_features = None
    THEN [response |->
             [status |-> 500, json |-> [error |-> "Could not analyze image"]],
          frame |-> l]
    ELSE coal_properties_stage(
             Set(l, [scenario |-> rnd.scenario,
                     env_params |->
                        generate_environmental_parameters(l.image_features,
                                                          rnd.scenario, rnd.env),
                     calls |-> Append(l.calls, "generate_environmental_parameters")]),
             image, rnd)

\* app.py:387-545.  dataset maps the names of the files under DATASET_PATH
\* to their images; rnd holds the draws of the stages and what becomes of
\* the drawing of the picture ("drawn", "none" or "raised").
analyze_thermal_image(dataset, image_name, rnd) ==
    IF image_name \notin DOMAIN dataset
    THEN [response |-> [status |-> 404, json |-> [error |-> "Image not found"]],
          frame |-> [image_name |-> image_name, calls |-> <<>>]]
    ELSE features_stage(
             [image_name |-> image_name,
              image_features |->
                 analyze_image_features(dataset[image_name], rnd.measured),
              calls |-> <<"analyze_image_features">>],
             dataset[image_name], rnd)

-----------------------------------------------------------------------------
(* batch_thermal_analysis (app.py:553-645).  listing is os.listdir of the  *)
(* dataset directory (None without the directory), sample_images the       *)
(* result of random.sample, rnd the draws of each turn of the loop; a      *)
(* turn's draw raised names the call that raises in it, or is "none".      *)

\* the end of a file name from its last dot on
suffix(f) ==
    CASE f = "notes.txt" -> ".txt"
      [] f = "S12.JPG" -> ".JPG"
      [] OTHER -> ".jpg"

\* str.lower of such an end
lower(ext) ==
    CASE ext = ".JPG" -> ".jpg"
      [] OTHER -> ext

\* app.py:559-560
image_files_of(listing) ==
    SelectSeq(listing, LAMBDA f : lower(suffix(f)) \in {".jpg", ".jpeg", ".png"})

\* min(a, b)
min(a, b) == IF a <= b THEN a ELSE b

\* app.py:610-626: the entry of an image with its scores
batch_entry(l, thermal_risk, standard_risk) ==
    [image_name |-> l.image_name,
     scenario |-> l.scenario,
     max_temp |-> l.temp_stats.max_temp,
     avg_temp |-> l.temp_stats.avg_temp,
     critical_area_percentage |-> l.temp_stats.critical_area_percentage,
     combined_risk_score |->
        R(standard_risk.risk_score + thermal_risk.thermal_risk_score, 2),
     cpt |-> l.cpt,
     coal_properties |-> l.coal_properties,
     env_params |->
        [ambient_temperature |-> l.env_params.ambient_temperature,
         wind_speed |-> l.env_params.wind_speed,
         relative_humidity |-> l.env_params.relative_humidity]]

\* app.py:605-608: the indices other than CPT are passed as None
batch_risk(l, raised) ==
    IF raised = "assess_thermal_risk"
    THEN None
    ELSE batch_entry(l,
             assess_thermal_risk(l.temperature_map, l.temp_stats),
             risk_assessment(l.cpt, None, None, None,
                             l.env_params.ambient_temperature, l.env_params.wind_speed))

\* app.py:586-602
batch_statistics(l, sim, raised) ==
    IF sim.thermal_map = None
    THEN None
    ELSE batch_risk(
             Set(l, [temperature_map |-> sim.temperature_map,
                     temp_stats |-> basic_temp_stats(sim.temperature_map),
                     cpt |-> crossing_point_temperature(l.coal_properties.moisture,
                                 l.coal_properties.volatile_matter,
                                 l.coal_properties.ash,
                                 l.coal_properties.fixed_carbon)]),
             raised)

\* app.py:577-585
batch_simulation(l, image, rnd) ==
    IF rnd.raised = "generate_environmental_parameters"
    THEN None
    ELSE batch_statistics(
             Set(l, [coal_properties |->
                        generate_coal_properties_from_image(l.image_features,
                                                            l.env_params, rnd.coal)]),
             simulate_thermal_distribution(image, l.env_params, rnd.sim),
             rnd.raised)

\* app.py:569-630: one turn of the loop, None when it ends in continue
batch_image(dataset, image_name, rnd) ==
    IF analyze_image_features(dataset[image_name], rnd.measured) = None
    THEN None
    ELSE batch_simulation(
             [image_name |-> image_name,
              image_features |->
                 analyze_image_features(dataset[image_name], rnd.measured),
              scenario |-> rnd.scenario,
              env_params |->
                 generate_environmental_parameters(
                     analyze_image_features(dataset[image_name], rnd.measured),
                     rnd.scenario, rnd.env)],
             dataset[image_name], rnd)

\* the loop left at the first image that fails
batch_loop_until_failure(dataset, sample_images, rnd) ==
    LET entries == [k \in 1..Len(sample_images) |->
                       batch_image(dataset, sample_images[k], rnd[k])]
        failed == {k \in 1..Len(sample_images) : entries[k] = None}
    IN  SelectSeq([k \in 1..Len(sample_images) |->
                      IF \E j \in failed : j <= k THEN None ELSE entries[k]],
                  LAMBDA e : e # None)

\* app.py:566-630: batch_results after the loop
batch_loop(dataset, sample_images, rnd) ==
    SelectSeq([k \in 1..Len(sample_images) |->
                  batch_image(dataset, sample_images[k], rnd[k])],
              LAMBDA e : e # None)

\* list.sort puts e behind the entries that do not come after it
sort_insert(sorted, e) ==
    LET n == Cardinality({i \in 1..Len(sorted) :
                 RGe(sorted[i].combined_risk_score, e.combined_risk_score)})
    IN  SubSeq(sorted, 1, n) \o <<e>> \o SubSeq(sorted, n + 1, Len(sorted))

\* the list left in the order of the loop
unsorted(batch_results) == batch_results

RECURSIVE sort_by_score(_)
\* app.py:633: batch_results.sort(key=combined_risk_score, reverse=True)
sort_by_score(batch_results) ==
    IF batch_results = <<>>
    THEN <<>>
    ELSE sort_insert(sort_by_score(SubSeq(batch_results, 1, Len(batch_results) - 1)),
                     batch_results[Len(batch_results)])

\* app.py:632-641
batch_page(l, batch_results) ==
    [response |->
        IF batch_results = <<>>
        THEN [status |-> 200, template |-> "batch_results.html", results |-> <<>>,
              error |-> "No samples could be processed successfully"]
        ELSE [status |-> 200, template |-> "batch_results.html",
              results |-> batch_results],
     frame |-> Set(l, [batch_results |-> batch_results])]

\* app.py:553-645
batch_thermal_analysis(listing, dataset, sample_images, rnd) ==
    IF listing = None
    THEN [response |-> [status |-> 404, json |-> [error |-> "Dataset not found"]],
          frame |-> <<>>]
    ELSE batch_page(
             [image_files |-> image_files_of(listing),
              sample_size |-> min(10, Len(image_files_of(listing))),
              sample_images |-> sample_images],
             sort_by_score(batch_loop(dataset, sample_images, rnd)))

-----------------------------------------------------------------------------
(* State machine.  One call at a time: a call action takes its inputs and  *)
(* its random draws from bounded sets and runs the whole function or       *)
(* handler; Return ends the call and drops its values.                     *)

MaxLevel == 1

\* the values k/MaxLevel of [0,1]
Levels == {R(k, MaxLevel) : k \in 0..MaxLevel}

Init ==
    /\ analysis_results = <<>>
    /\ temp_ranges = [safe |-> <<15, 35>>, watch |-> <<35, 50>>,
                      caution |-> <<50, 80>>, danger |-> <<80, 120>>,
                      critical |-> <<120, 200>>]
    /\ pyplot = [open |-> {}, content |-> <<>>]
    /\ pc = "idle"
    /\ op = "none"
    /\ args = <<>>
    /\ ret = <<>>
    /\ frame = <<>>

Return ==
    /\ pc = "done"
    /\ pc' = "idle"
    /\ op' = "none"
    /\ args' = <<>>
    /\ ret' = <<>>
    /\ frame' = <<>>
    /\ UNCHANGED <<analysis_results, temp_ranges, pyplot>>

Called(name, a, r, f) ==
    /\ pc' = "done"
    /\ op' = name
    /\ args' = a
    /\ ret' = r
    /\ frame' = f
    /\ UNCHANGED <<analysis_results, temp_ranges, pyplot>>

\* a handler ran: r is its [response, frame]
Responded(name, a, r) == Called(name, a, r.response, r.frame)

-----------------------------------------------------------------------------
(* Calls of simulate_thermal_distribution.                                 *)

GrayGrids ==
    { << <<g>> >> : g \in {0, 255} }
    \cup { << <<g1, g2>> >> : g1 \in {0}, g2 \in {102, 255} }
    \cup { << <<g1>>, <<g2>> >> : g1 \in {255}, g2 \in {0} }

\* images that simulate: both sides at least 40 pixels
SimSizes == { <<40, 40>>, <<100, 80>> }

\* images that do not: not decodable, or a side below 40 pixels
SimImages ==
    { [decodable |-> TRUE, height |-> sz[1], width |-> sz[2], gray |-> g] :
          sz \in SimSizes, g \in GrayGrids }
    \cup { [decodable |-> d[1], height |-> d[2], width |-> d[3], gray |-> << <<0>> >>] :
              d \in { <<FALSE, 100, 80>>, <<TRUE, 39, 100>>, <<TRUE, 100, 39>> } }

\* the two ends of a range
Ends == {RInt(0), RInt(1)}

\* random.randint / random.uniform of thermal_simulator.py:192-195 at the
\* ends of their ranges
SpotChoices(image) ==
    { hot_spot(image, [x |-> p, y |-> p, intensity |-> p, size |-> p]) : p \in Ends }

\* random.randint(3, 12) spots
SpotSeqs(image) ==
    { [k \in 1..num_hotspots(p) |-> IF k = num_hotspots(p) THEN b ELSE a] :
          p \in Ends, a \in SpotChoices(image), b \in SpotChoices(image) }

WeightFields(grid) == [1..Rows(grid) -> [1..Cols(grid) -> Levels]]

SimDraws(image) ==
    [spots : SpotSeqs(image),
     diffusion_weight : WeightFields(image.gray),
     spot_weight : WeightFields(image.gray)]

Env(t, h, w, o, p, ph, d) ==
    [ambient_temperature |-> t, relative_humidity |-> h, wind_speed |-> w,
     oxygen_content |-> o, atmospheric_pressure |-> p, pile_height |-> ph,
     storage_duration |-> d]

\* any EnvironmentParams value, also outside what the generator produces
SimEnvs ==
    { Env(RInt(25), RInt(95), R(5, 100), R(209, 10), RInt(100), RInt(10), 30),
      Env(RInt(25), RInt(20), RInt(10), R(209, 10), RInt(100), RInt(2), 1),
      Env(RInt(-5), RInt(50), RInt(1), R(209, 10), RInt(100), RInt(-10), 1),
      Env(R(-55, 10), RInt(-200), RInt(0), RInt(0), RInt(0), RInt(8), 15) }

Call_simulate_thermal_distribution ==
    /\ pc = "idle"
    /\ \E image \in SimImages, env_params \in SimEnvs :
         \E rnd \in SimDraws(image) :
            LET r == simulate_thermal_distribution(image, env_params, rnd)
            IN  Called("simulate_thermal_distribution",
                       [image |-> image, env_params |-> env_params],
                       r, [rnd |-> rnd])

NextSim == Call_simulate_thermal_distribution \/ Return

SpecSim == Init /\ [][NextSim]_vars

\* C1: every cell of the temperature field returned by
\* simulate_thermal_distribution lies in
\* [ambient_temperature, ambient_temperature + 180], and the temperature
\* field has the shape of the thermal field (whose cells are in [0,1]).
C1_TemperatureWithinClip ==
    (pc = "done" /\ op = "simulate_thermal_distribution" /\ ret.temperature_map # None) =>
        /\ Shape(ret.temperature_map) = Shape(ret.thermal_map)
        /\ \A c \in Cells(ret.thermal_map) :
              /\ RLe(RInt(0), ret.thermal_map[c[1]][c[2]])
              /\ RLe(ret.thermal_map[c[1]][c[2]], RInt(1))
        /\ \A c \in Cells(ret.temperature_map) :
              /\ RLe(args.env_params.ambient_temperature, ret.temperature_map[c[1]][c[2]])
              /\ RLe(ret.temperature_map[c[1]][c[2]],
                     RAdd(args.env_params.ambient_temperature, RInt(180)))

\* a call with a two-cell field of which a cell was cut down to ambient + 180
C1_Witness ==
    /\ pc = "done" /\ op = "simulate_thermal_distribution" /\ ret.temperature_map # None
    /\ Cardinality(Cells(ret.temperature_map)) = 2
    /\ \E c \in Cells(ret.temperature_map) :
          /\ ret.temperature_map[c[1]][c[2]]
                = RAdd(args.env_params.ambient_temperature, RInt(180))
          /\ RLt(ret.thermal_map[c[1]][c[2]], RInt(1))

-----------------------------------------------------------------------------
(* Calls of the four index functions on one proximate analysis.            *)

MaxPctStep == 8

\* percentages 0, 5, 10, ...
ProximateValues == {RInt(5 * k) : k \in 0..MaxPctStep}

OxygenValues == {R(209, 10), RInt(0)}

Call_calculated_indices ==
    /\ pc = "idle"
    /\ \E moisture \in ProximateValues, volatile_matter \in ProximateValues,
          ash \in ProximateValues, fixed_carbon \in ProximateValues,
          oxygen \in OxygenValues :
         Called("calculated_indices",
                [moisture |-> moisture, volatile_matter |-> volatile_matter,
                 ash |-> ash, fixed_carbon |-> fixed_carbon, oxygen |-> oxygen],
                [cpt |-> crossing_point_temperature(moisture, volatile_matter,
                                                    ash, fixed_carbon),
                 liability_index |-> liability_index(moisture, volatile_matter, ash),
                 wits_index |-> wits_index(moisture, volatile_matter, ash, oxygen),
                 olpinski_index |-> olpinski_index(moisture, volatile_matter, ash)],
                <<>>)

NextIndices == Call_calculated_indices \/ Return

SpecIndices == Init /\ [][NextIndices]_vars

\* Scenario 1 of the specification
Scenario1 ==
    [moisture |-> RInt(10), volatile_matter |-> RInt(35), ash |-> RInt(15),
     fixed_carbon |-> RInt(40), oxygen |-> R(209, 10)]

\* |x - y| <= 1/(2 * 10^ndigits): y is x rounded to ndigits decimals
NearestTo(x, y, ndigits) ==
    /\ Pow10(ndigits) % y.den = 0
    /\ RLe(RSub(x, y), R(1, 2 * Pow10(ndigits)))
    /\ RLe(RSub(y, x), R(1, 2 * Pow10(ndigits)))

\* C7 as stated: for moisture=10, volatile_matter=35, ash=15, oxygen=20.9
\* wits_index returns 587.8.
C7_Original ==
    (pc = "done" /\ op = "calculated_indices" /\ args = Scenario1) =>
        ret.wits_index = R(5878, 10)

\* C7 as amended: wits_index returns
\* (moisture + volatile_matter) * oxygen / (ash + 1) rounded to 2 decimals,
\* which for moisture=10, volatile_matter=35, ash=15, oxygen=20.9 is 58.78.
C7_WitsScenario ==
    (pc = "done" /\ op = "calculated_indices") =>
        /\ IsNum(ret.wits_index)
        /\ NearestTo(RDiv(RMul(RAdd(args.moisture, args.volatile_matter), args.oxygen),
                          RAdd(args.ash, RInt(1))),
                     ret.wits_index, 2)
        /\ args = Scenario1 => ret.wits_index = R(5878, 100)

C7_Witness ==
    pc = "done" /\ op = "calculated_indices" /\ args = Scenario1
    /\ ret.wits_index = R(5878, 100)

\* C8: for moisture=10, volatile_matter=35, ash=15, fixed_carbon=40 (sum 100,
\* no rescaling) crossing_point_temperature returns 143.0 =
\* 150 + 0.3 ash - 0.5 volatile_matter + 0.2 moisture + 0.1 fixed_carbon,
\* liability_index returns 23.33 and olpinski_index returns 0.2.
C8_Scenario1Indices ==
    (pc = "done" /\ op = "calculated_indices"
     /\ args.moisture = RInt(10) /\ args.volatile_matter = RInt(35)
     /\ args.ash = RInt(15) /\ args.fixed_carbon = RInt(40)) =>
        /\ ret.cpt = RInt(143)
        /\ ret.cpt = R(15000 + 30 * 15 - 50 * 35 + 20 * 10 + 10 * 40, 100)
        /\ ret.liability_index = R(2333, 100)
        /\ NearestTo(R(10 * 35, 15), ret.liability_index, 2)
        /\ ret.olpinski_index = R(2, 10)
        /\ NearestTo(R(10, 15 + 35), ret.olpinski_index, 3)

C8_Witness ==
    pc = "done" /\ op = "calculated_indices" /\ args = Scenario1
    /\ ret.cpt = RInt(143) /\ ret.liability_index = R(2333, 100)
    /\ ret.olpinski_index = R(2, 10)

-----------------------------------------------------------------------------
(* Calls of risk_assessment.  The arguments lie on and next to every band  *)
(* edge; an index is a number (0 included) or None.                        *)

CptArgs ==
    {None, RInt(0), RInt(120), R(13999, 100), RInt(140), R(14999, 100), RInt(150),
     R(15999, 100), RInt(160), RInt(200)}

LiArgs == {None, RInt(0), R(5, 10), RInt(1), R(101, 100), RInt(2), R(201, 100)}

WitsArgs == {None, RInt(0), RInt(2), R(201, 100), RInt(5), R(501, 100)}

OiArgs == {None, RInt(0), R(2, 10), R(9, 10)}

AmbientArgs == {RInt(25), RInt(30), R(3001, 100)}

VentilationArgs == {R(49, 100), R(5, 10), RInt(1)}

Call_risk_assessment ==
    /\ pc = "idle"
    /\ \E cpt \in CptArgs, li \in LiArgs, wits \in WitsArgs, oi \in OiArgs,
          ambient_temp \in AmbientArgs, ventilation_rate \in VentilationArgs :
         Called("risk_assessment",
                [cpt |-> cpt, li |-> li, wits |-> wits, oi |-> oi,
                 ambient_temp |-> ambient_temp, ventilation_rate |-> ventilation_rate],
                risk_assessment(cpt, li, wits, oi, ambient_temp, ventilation_rate),
                <<>>)

NextRisk == Call_risk_assessment \/ Return

SpecRisk == Init /\ [][NextRisk]_vars

RiskCalled == pc = "done" /\ op = "risk_assessment"

\* the band tables of the specification (section 4.5), for a numeric index
TableCpt(c) ==
    IF RLt(c, RInt(140)) THEN 40 ELSE IF RLt(c, RInt(150)) THEN 30
    ELSE IF RLt(c, RInt(160)) THEN 20 ELSE 10
TableLi(l) == IF RGt(l, RInt(2)) THEN 25 ELSE IF RGt(l, RInt(1)) THEN 15 ELSE 5
TableWits(w) == IF RGt(w, RInt(5)) THEN 20 ELSE IF RGt(w, RInt(2)) THEN 10 ELSE 5
TableEnv(t, v) ==
    (IF RGt(t, RInt(30)) THEN 15 ELSE 0) + (IF RLt(v, R(5, 10)) THEN 15 ELSE 0)

\* C2: every numeric CPT, liability index and WITS index adds exactly its
\* band's points to risk_score (CPT 40/30/20/10, liability index 25/15/5,
\* WITS 20/10/5); only an index that is None adds 0.
C2_BandPoints ==
    RiskCalled =>
        ret.risk_score - TableEnv(args.ambient_temp, args.ventilation_rate)
          = (IF args.cpt = None THEN 0 ELSE TableCpt(args.cpt))
            + (IF args.li = None THEN 0 ELSE TableLi(args.li))
            + (IF args.wits = None THEN 0 ELSE TableWits(args.wits))

C5_AllMissingIsLow ==
    (RiskCalled /\ args.cpt = None /\ args.li = None /\ args.wits = None
     /\ args.oi = None /\ RLe(args.ambient_temp, RInt(30))
     /\ RGe(args.ventilation_rate, R(5, 10))) =>
        ret = [overall_risk |-> "LOW", risk_score |-> 0, risk_factors |-> <<>>,
               color |-> "success"]

\* the call at the two edges: ambient exactly 30, ventilation exactly 0.5
C5_Witness ==
    /\ RiskCalled /\ args.cpt = None /\ args.li = None /\ args.wits = None
    /\ args.oi = None /\ args.ambient_temp = RInt(30)
    /\ args.ventilation_rate = R(5, 10)
    /\ ret.overall_risk = "LOW" /\ ret.risk_score = 0

-----------------------------------------------------------------------------
(* Calls of assess_thermal_risk, with statistics on and next to every band *)
(* edge.                                                                   *)

MaxTempArgs ==
    {RInt(25), RInt(50), R(5001, 100), RInt(80), R(8001, 100), RInt(120),
     R(12001, 100), RInt(380)}

AvgTempArgs == {RInt(20), RInt(45), R(4501, 100), RInt(200)}

CriticalAreaArgs == {RInt(0), RInt(10), R(1001, 100), RInt(20), R(2001, 100), RInt(100)}

HotSpotArgs == {0, 5, 6, 10, 11, 5000}

Call_assess_thermal_risk ==
    /\ pc = "idle"
    /\ \E max_temp \in MaxTempArgs, avg_temp \in AvgTempArgs,
          critical_area_percentage \in CriticalAreaArgs, hot_spot_count \in HotSpotArgs :
         LET temperature_map == << <<RInt(20), max_temp>> >>
             temp_stats == [min_temp |-> RInt(20), max_temp |-> max_temp,
                            avg_temp |-> avg_temp, hot_spot_count |-> hot_spot_count,
                            critical_area_percentage |-> critical_area_percentage]
         IN  Called("assess_thermal_risk",
                    [temperature_map |-> temperature_map, temp_stats |-> temp_stats],
                    assess_thermal_risk(temperature_map, temp_stats),
                    <<>>)

NextThermalRisk == Call_assess_thermal_risk \/ Return

SpecThermalRisk == Init /\ [][NextThermalRisk]_vars

\* the thermal band table of the specification (section 4.5)
TableM(t) == IF RGt(t, RInt(120)) THEN 40 ELSE IF RGt(t, RInt(80)) THEN 30
             ELSE IF RGt(t, RInt(50)) THEN 20 ELSE 0
TableA(t) == IF RGt(t, RInt(45)) THEN 15 ELSE 0
TableC(p) == IF RGt(p, RInt(20)) THEN 20 ELSE IF RGt(p, RInt(10)) THEN 10 ELSE 0
TableH(n) == IF n > 10 THEN 15 ELSE IF n > 5 THEN 8 ELSE 0

\* C6: thermal_risk_score = min(100, M + A + C + H) with M, A, C, H the band
\* points of max_temp, avg_temp, critical_area_percentage and
\* hot_spot_count; the score is in [0,100]; with every band triggered at
\* once the sum is 90, so the clamp changes nothing.
C6_ThermalScore ==
    (pc = "done" /\ op = "assess_thermal_risk") =>
        LET st == args.temp_stats
            sum == TableM(st.max_temp) + TableA(st.avg_temp)
                   + TableC(st.critical_area_percentage) + TableH(st.hot_spot_count)
        IN  /\ ret.thermal_risk_score = Min2(100, sum)
            /\ ret.thermal_risk_score = sum
            /\ ret.thermal_risk_score \in 0..100
            /\ (RGt(st.max_temp, RInt(120)) /\ RGt(st.avg_temp, RInt(45))
                /\ RGt(st.critical_area_percentage, RInt(20)) /\ st.hot_spot_count > 10)
                  => ret.thermal_risk_score = 90
            /\ Len(ret.thermal_risk_factors) =
                  Cardinality({k \in 1..4 :
                      <<TableM(st.max_temp), TableA(st.avg_temp),
                        TableC(st.critical_area_percentage),
                        TableH(st.hot_spot_count)>>[k] > 0})

\* every band triggered at once
C6_Witness ==
    /\ pc = "done" /\ op = "assess_thermal_risk"
    /\ RGt(args.temp_stats.max_temp, RInt(120))
    /\ RGt(args.temp_stats.avg_temp, RInt(45))
    /\ RGt(args.temp_stats.critical_area_percentage, RInt(20))
    /\ args.temp_stats.hot_spot_count > 10
    /\ ret.thermal_risk_score = 90

-----------------------------------------------------------------------------
(* Calls of generate_coal_properties_from_image, with features and         *)
(* environment on both sides of every test and the draws at the positions  *)
(* of Levels; the draws of one adjustment share a position.                *)

CoalFeatures ==
    {None, [avg_brightness |-> RInt(59)]} \cup
    { [avg_brightness |-> b, texture_variance |-> t, avg_particle_size |-> s,
       particle_count |-> 50] :
          b \in {RInt(59), RInt(60)}, t \in {RInt(600), RInt(601)},
          s \in {RInt(49), RInt(50)} }

CoalEnvs ==
    { Env(RInt(25), h, RInt(1), R(209, 10), RInt(100), RInt(3), d) :
          h \in {RInt(70), RInt(71)}, d \in {15, 16} }
    \cup {None}

CoalDraws ==
    { [moisture |-> b[1], volatile_matter |-> b[2], ash |-> b[3], fixed_carbon |-> b[4],
       dark_fixed_carbon |-> a[1], dark_volatile_matter |-> a[1],
       rough_moisture |-> a[2], rough_ash |-> a[2],
       fine_volatile_matter |-> a[3],
       humid_moisture |-> a[4],
       aged_moisture |-> a[5], aged_ash |-> a[5]] :
          b \in [1..4 -> Levels], a \in [1..5 -> {R(0, 1), R(1, 1)}] }

Call_generate_coal_properties_from_image ==
    /\ pc = "idle"
    /\ \E image_features \in CoalFeatures, env_params \in CoalEnvs, u \in CoalDraws :
         Called("generate_coal_properties_from_image",
                [image_features |-> image_features, env_params |-> env_params],
                generate_coal_properties_from_image(image_features, env_params, u),
                IF coal_properties_raise(image_features, env_params)
                THEN <<>>
                ELSE LET properties == adjusted_properties(image_features, env_params, u)
                     IN  [total |-> properties_total(properties),
                          properties |-> normalized_properties(properties)])

NextCoal == Call_generate_coal_properties_from_image \/ Return

SpecCoal == Init /\ [][NextCoal]_vars

CoalCalled == pc = "done" /\ op = "generate_coal_properties_from_image"

\* C10: in generate_coal_properties_from_image the total before the
\* normalization is > 0, so the scaling is applied and the four properties
\* then sum to 100; the returned properties are those values cut to
\* moisture [1,20], volatile_matter [15,50], ash [5,35], fixed_carbon
\* [25,70], with no normalization after the cut.
C10_NormalizedThenBounded ==
    CoalCalled =>
        /\ frame # <<>> =>
              /\ RGt(frame.total, RInt(0))
              /\ properties_total(frame.properties) = RInt(100)
              /\ ret.moisture = clip(frame.properties.moisture, RInt(1), RInt(20))
              /\ ret.volatile_matter
                    = clip(frame.properties.volatile_matter, RInt(15), RInt(50))
              /\ ret.ash = clip(frame.properties.ash, RInt(5), RInt(35))
              /\ ret.fixed_carbon = clip(frame.properties.fixed_carbon, RInt(25), RInt(70))
        /\ RLe(RInt(1), ret.moisture) /\ RLe(ret.moisture, RInt(20))
        /\ RLe(RInt(15), ret.volatile_matter) /\ RLe(ret.volatile_matter, RInt(50))
        /\ RLe(RInt(5), ret.ash) /\ RLe(ret.ash, RInt(35))
        /\ RLe(RInt(25), ret.fixed_carbon) /\ RLe(ret.fixed_carbon, RInt(70))

\* a call in which the cut lowered the moisture, so that the returned
\* properties sum to less than 100
C10_Witness ==
    /\ CoalCalled /\ frame # <<>>
    /\ RGt(frame.properties.moisture, RInt(20))
    /\ ret.moisture = RInt(20)
    /\ RLt(properties_total(ret), RInt(100))

-----------------------------------------------------------------------------
(* The application: requests to /analyze, /api/analyze and                 *)
(* /thermal_analyze/<image_name>, one at a time.                           *)

\* a key the request does not hold
Absent == [absent |-> TRUE]

\* JSON or form data: a value, null or a text that is no number per key
ManualRequests ==
    { [k \in {key \in DOMAIN c : c[key] # Absent} |-> c[k]] :
          c \in [moisture : {Absent, None, NotNumeric, RInt(0), RInt(10)},
                 volatile_matter : {Absent, RInt(0), RInt(35)},
                 ash : {Absent, RInt(0), RInt(15)},
                 fixed_carbon : {Absent, RInt(40)},
                 oxygen : {Absent, RInt(15)},
                 ambient_temp : {Absent, RInt(31)},
                 ventilation_rate : {Absent, R(4, 10)}] }

\* the files under DATASET_PATH
DATASET ==
    [name \in {"coal_dark.jpg", "coal_mixed.jpg", "coal_bright.jpg", "corrupt.jpg",
               "thumbnail.jpg"} |->
        CASE name = "coal_dark.jpg" ->
                [decodable |-> TRUE, height |-> 40, width |-> 40, gray |-> << <<0, 102>> >>]
          [] name = "coal_mixed.jpg" ->
                [decodable |-> TRUE, height |-> 100, width |-> 80,
                 gray |-> << <<255>>, <<0>> >>]
          [] name = "coal_bright.jpg" ->
                [decodable |-> TRUE, height |-> 100, width |-> 80, gray |-> << <<255>> >>]
          [] name = "corrupt.jpg" ->
                [decodable |-> FALSE, height |-> 100, width |-> 80, gray |-> << <<0>> >>]
          [] name = "thumbnail.jpg" ->
                [decodable |-> TRUE, height |-> 39, width |-> 100, gray |-> << <<0>> >>]]

ImageNames == DOMAIN DATASET \cup {"missing.jpg"}

MeasuredChoices ==
    { [texture_variance |-> RInt(700), avg_particle_size |-> RInt(30),
       particle_count |-> 150],
      [texture_variance |-> RInt(400), avg_particle_size |-> RInt(80),
       particle_count |-> 50] }

\* every draw of generate_environmental_parameters at the same position
EnvProfiles ==
    { [k \in {"temp", "humidity", "wind", "oxygen", "pressure", "pile", "duration",
              "dark_temp", "rough_wind", "particle_pile"} |-> p] : p \in Levels }

CoalDrawNames ==
    {"moisture", "volatile_matter", "ash", "fixed_carbon", "dark_fixed_carbon",
     "dark_volatile_matter", "rough_moisture", "rough_ash", "fine_volatile_matter",
     "humid_moisture", "aged_moisture", "aged_ash"}

\* every draw of generate_coal_properties_from_image at the same position,
\* or the draws for volatile matter at the top and the others at the bottom
CoalProfiles ==
    { [k \in CoalDrawNames |-> p] : p \in Levels }
    \cup { [k \in CoalDrawNames |->
               IF k \in {"volatile_matter", "dark_volatile_matter", "fine_volatile_matter"}
               THEN R(1, 1) ELSE R(0, 1)] }

\* 3 spots of the first choice or 12 of the second, every weight of the
\* blurs at the same position
SimProfiles(image) ==
    { [spots |-> [k \in 1..num_hotspots(n) |->
                     hot_spot(image, [x |-> n, y |-> n, intensity |-> n, size |-> n])],
       diffusion_weight |-> [i \in 1..Rows(image.gray) |->
                                [j \in 1..Cols(image.gray) |-> p]],
       spot_weight |-> [i \in 1..Rows(image.gray) |->
                           [j \in 1..Cols(image.gray) |-> p]]] :
          n \in Ends, p \in Levels }

\* the draws of a request for image_name, up to the stage that ends it
HandlerDraws(image_name) ==
    IF image_name \notin DOMAIN DATASET \/ ~DATASET[image_name].decodable
    THEN { <<>> }
    ELSE [measured : MeasuredChoices,
          scenario : DOMAIN scenarios,
          env : EnvProfiles,
          coal : CoalProfiles,
          sim : IF simulation_fails(DATASET[image_name])
                THEN { <<>> } ELSE SimProfiles(DATASET[image_name]),
          visualization : {"drawn", "none", "raised"}]

Analyze ==
    /\ pc = "idle"
    /\ \E data \in ManualRequests :
         Responded("analyze", [data |-> data], analyze(data))

ApiAnalyze ==
    /\ pc = "idle"
    /\ \E data \in ManualRequests :
         Responded("api_analyze", [data |-> data], api_analyze(data))

AnalyzeThermalImage ==
    /\ pc = "idle"
    /\ \E image_name \in ImageNames :
         \E rnd \in HandlerDraws(image_name) :
            Responded("analyze_thermal_image", [image_name |-> image_name, rnd |-> rnd],
                      analyze_thermal_image(DATASET, image_name, rnd))

Next == Analyze \/ ApiAnalyze \/ AnalyzeThermalImage \/ Return

Spec == Init /\ [][Next]_vars

\* a manual analysis that was answered with results
ManualDone ==
    /\ pc = "done"
    /\ \/ op = "analyze" /\ ret.template = "results.html"
       \/ op = "api_analyze" /\ ret.status = 200

ManualResults == IF op = "analyze" THEN ret.results ELSE ret.json

\* an image analysis that was answered with results
ThermalDone ==
    pc = "done" /\ op = "analyze_thermal_image" /\ ret.status = 200

\* the category that the thresholds 80, 60 and 40 give a score
InCategory(score, risk) ==
    /\ RGe(score, RInt(80)) => (risk.overall_risk = "CRITICAL" /\ risk.color = "danger")
    /\ (RGe(score, RInt(60)) /\ RLt(score, RInt(80)))
          => (risk.overall_risk = "HIGH" /\ risk.color = "warning")
    /\ (RGe(score, RInt(40)) /\ RLt(score, RInt(60)))
          => (risk.overall_risk = "MODERATE" /\ risk.color = "info")
    /\ RLt(score, RInt(40)) => (risk.overall_risk = "LOW" /\ risk.color = "success")

\* C4: on the chemical-only path and on the combined path the category is
\* the one the thresholds 80, 60, 40 give the score (CRITICAL/danger,
\* HIGH/warning, MODERATE/info, LOW/success); the two paths classify every
\* score alike, and the combined path classifies every multiple of one
\* half, 79.5 and 59.5 among them, by the same thresholds (the last two
\* are statements about the functions, looked at between two requests).
C4_CategoryOfScore ==
    /\ ManualDone =>
          InCategory(RInt(ManualResults.risk_assessment.risk_score),
                     ManualResults.risk_assessment)
    /\ ThermalDone =>
          /\ InCategory(ret.results.combined_risk_assessment.risk_score,
                        ret.results.combined_risk_assessment)
          /\ ret.results.combined_risk_assessment.risk_score
                = R(ret.results.combined_risk_assessment.standard_risk_score
                    + ret.results.combined_risk_assessment.thermal_risk_score, 2)
    /\ pc = "idle" =>
          \A k \in 0..(2 * (40 + 25 + 20 + 15 + 15)) :
              /\ InCategory(R(k, 2), combined_category(R(k, 2)))
              /\ k % 2 = 0 => risk_category(k \div 2) = combined_category(R(k, 2))

\* an image analysis whose combined score is no integer and is classified
\* HIGH
C4_Witness ==
    /\ ThermalDone
    /\ ret.results.combined_risk_assessment.risk_score.den = 2
    /\ ret.results.combined_risk_assessment.overall_risk = "HIGH"

\* C9: with ash = 0 the manual analysis completes, the liability index is
\* none, adds no points and no risk factor, and CPT and WITS are computed
\* and scored.
C9_AshZero ==
    (ManualDone /\ frame.ash = RInt(0)) =>
        LET res == ManualResults
            idx == res.calculated_indices
        IN  /\ idx.liability_index = None
            /\ ~Contains(str(res.risk_assessment.risk_factors), <<"Liability", "Index">>)
            /\ IsNum(idx.cpt) /\ IsNum(idx.wits_index)
            /\ Contains(str(res.risk_assessment.risk_factors), <<"CPT", "Risk">>)
            /\ Contains(str(res.risk_assessment.risk_factors), <<"WITS", "Index">>)
            /\ res.risk_assessment.risk_score
                  = TableCpt(idx.cpt) + TableWits(idx.wits_index)
                    + TableEnv(frame.ambient_temp, frame.ventilation_rate)

-----------------------------------------------------------------------------
(* The stages of analyze_thermal_image.                                    *)

\* the operations analyze_thermal_image calls, in the order of app.py:397-502
STAGE_ORDER ==
    << "analyze_image_features", "generate_environmental_parameters",
       "generate_coal_properties_from_image", "simulate_thermal_distribution",
       "create_thermal_visualization", "assess_thermal_risk",
       "crossing_point_temperature", "liability_index", "wits_index",
       "olpinski_index", "risk_assessment", "generate_recommendations" >>

\* an image analysis was answered
ThermalAnswered == pc = "done" /\ op = "analyze_thermal_image"

\* the answer is the error with this status and text
ErrorAnswer(status, text) ==
    ret = [status |-> status, json |-> [error |-> text]]

\* C11: analyze_thermal_image calls its stages in the fixed order (features,
\* environment, coal properties, simulation, statistics, thermal and
\* chemical scoring, combination); a missing image ends the request with
\* 404 'Image not found' before any stage, failed features with 500 'Could
\* not analyze image' after the first stage, a failed simulation with 500
\* 'Could not simulate thermal distribution' after the fourth; no later
\* stage runs, the failed value is kept as none and nothing is put in its
\* place.
C11_StageOrder ==
    ThermalAnswered =>
        LET name == args.image_name
            n == Len(frame.calls)
        IN  /\ frame.calls = SubSeq(STAGE_ORDER, 1, n)
            /\ IF name \notin DOMAIN DATASET
               THEN /\ ErrorAnswer(404, "Image not found")
                    /\ n = 0
                    /\ DOMAIN frame = {"image_name", "calls"}
               ELSE IF ~DATASET[name].decodable
               THEN /\ ErrorAnswer(500, "Could not analyze image")
                    /\ n = 1
                    /\ frame.image_features = None
                    /\ DOMAIN frame = {"image_name", "image_features", "calls"}
               ELSE IF simulation_fails(DATASET[name])
               THEN /\ ErrorAnswer(500, "Could not simulate thermal distribution")
                    /\ n = 4
                    /\ DOMAIN frame = {"image_name", "image_features", "scenario",
                                       "env_params", "coal_properties", "calls"}
               ELSE /\ ret.status = 200
                    /\ n = Len(STAGE_ORDER)
                    /\ frame.image_features # None
                    /\ frame.thermal_map # None
                    /\ frame.combined_risk_score
                          = R(frame.standard_risk.risk_score
                              + frame.thermal_risk.thermal_risk_score, 2)

\* a request for an image that is read but too small to simulate, ended
\* after the simulation
C11_Witness ==
    /\ ThermalAnswered
    /\ ErrorAnswer(500, "Could not simulate thermal distribution")
    /\ frame.calls = SubSeq(STAGE_ORDER, 1, 4)
    /\ frame.image_features # None

-----------------------------------------------------------------------------
(* Requests to /batch_thermal_analysis.                                    *)

\* the pictures of the batch dataset: the third cannot be read, the sixth
\* is too small to simulate
BATCH_FILES ==
    << "s01.jpg", "s02.jpg", "s03.jpg", "s04.jpg", "s05.jpg", "s06.jpg",
       "s07.jpg", "s08.jpg", "s09.jpg", "s10.jpg", "s11.jpg", "S12.JPG" >>

BATCH_DATASET ==
    [name \in {BATCH_FILES[k] : k \in 1..Len(BATCH_FILES)} |->
        LET k == CHOOSE i \in 1..Len(BATCH_FILES) : BATCH_FILES[i] = name
        IN  [decodable |-> k # 3,
             height |-> IF k = 6 THEN 39 ELSE 100,
             width |-> 80,
             gray |-> CASE k % 3 = 0 -> << <<255>> >>
                        [] k % 3 = 1 -> << <<0, 102>> >>
                        [] OTHER -> << <<255>>, <<0>> >>]]

\* what os.listdir may give, None without the directory
BatchListings ==
    { None, <<>>, <<"notes.txt">>, <<"s06.jpg", "s03.jpg">>,
      <<"s01.jpg", "notes.txt", "s03.jpg", "s02.jpg">>,
      <<"notes.txt">> \o BATCH_FILES }

\* the sequence s backwards
Reversed(s) == [k \in 1..Len(s) |-> s[Len(s) + 1 - k]]

\* results of random.sample(image_files, sample_size): every order of up
\* to three files, three of the orders of more
BatchSamples(image_files, sample_size) ==
    IF Len(image_files) <= 3
    THEN { o \in [1..sample_size -> {image_files[k] : k \in 1..Len(image_files)}] :
             \A i, j \in 1..sample_size : i # j => o[i] # o[j] }
    ELSE { SubSeq(image_files, 1, sample_size),
           Reversed(SubSeq(image_files, Len(image_files) - sample_size + 1,
                           Len(image_files))),
           SubSeq(image_files, 2, sample_size) \o <<image_files[Len(image_files)]>> }

\* which call raises in which turn: none, or one of two calls in the
\* second turn
BatchRaises == {"none", "generate_environmental_parameters", "assess_thermal_risk"}

\* the draws of the turns of one request: the scenarios and measurements
\* go round from turn to turn, starting at shift
BatchDraws(sample_images) ==
    { [k \in 1..Len(sample_images) |->
          [measured |->
              IF (k + shift) % 2 = 0
              THEN [texture_variance |-> RInt(700), avg_particle_size |-> RInt(30),
                    particle_count |-> 150]
              ELSE [texture_variance |-> RInt(400), avg_particle_size |-> RInt(80),
                    particle_count |-> 50],
           scenario |->
              <<"normal", "hot_day", "humid", "poor_ventilation">>[((k + shift) % 4) + 1],
           env |-> env,
           coal |-> coal,
           sim |-> IF simulation_fails(BATCH_DATASET[sample_images[k]])
                   THEN <<>>
                   ELSE CHOOSE sim \in SimProfiles(BATCH_DATASET[sample_images[k]]) :
                           /\ sim.diffusion_weight[1][1] = env.temp
                           /\ Len(sim.spots) = IF k % 2 = 0 THEN 3 ELSE 12,
           visualization |-> "none",
           raised |-> IF k = 2 THEN raised ELSE "none"]] :
        shift \in 0..3, env \in EnvProfiles, coal \in CoalProfiles,
        raised \in BatchRaises }

BatchThermalAnalysis ==
    /\ pc = "idle"
    /\ \E listing \in BatchListings :
         IF listing = None
         THEN Responded("batch_thermal_analysis", [listing |-> listing],
                        batch_thermal_analysis(listing, BATCH_DATASET, <<>>, <<>>))
         ELSE \E sample_images \in
                    BatchSamples(image_files_of(listing),
                                 min(10, Len(image_files_of(listing)))) :
                \E rnd \in BatchDraws(sample_images) :
                   Responded("batch_thermal_analysis",
                             [listing |-> listing, sample_images |-> sample_images,
                              rnd |-> rnd],
                             batch_thermal_analysis(listing, BATCH_DATASET,
                                                    sample_images, rnd))

NextBatch == BatchThermalAnalysis \/ Return

SpecBatch == Init /\ [][NextBatch]_vars

\* a batch request was answered from an existing dataset directory
BatchAnswered ==
    pc = "done" /\ op = "batch_thermal_analysis" /\ args.listing # None

\* the image of turn k can be read and simulated and no call raises
BatchSucceeds(k) ==
    /\ BATCH_DATASET[args.sample_images[k]].decodable
    /\ BATCH_DATASET[args.sample_images[k]].height >= 40
    /\ BATCH_DATASET[args.sample_images[k]].width >= 40
    /\ args.rnd[k].raised = "none"

\* C12: the batch takes min(10, number of images) distinct images, a turn
\* that fails (features, simulation, an exception) does not keep the later
\* turns from running, the results hold exactly the images whose turn
\* succeeded, each once; with no such image (an empty directory among the
\* cases) the answer is the page with no results and the message 'No
\* samples could be processed successfully'.
C12_BatchFailuresIsolated ==
    BatchAnswered =>
        LET sample == frame.sample_images
            ok == {k \in 1..Len(sample) : BatchSucceeds(k)}
        IN  /\ frame.sample_size
                  = (IF Len(frame.image_files) < 10 THEN Len(frame.image_files) ELSE 10)
            /\ Len(sample) = frame.sample_size
            /\ \A i, j \in 1..Len(sample) : i # j => sample[i] # sample[j]
            /\ \A i \in 1..Len(sample) :
                  \E j \in 1..Len(frame.image_files) : sample[i] = frame.image_files[j]
            /\ ret.status = 200 /\ ret.template = "batch_results.html"
            /\ Len(ret.results) = Cardinality(ok)
            /\ {ret.results[i].image_name : i \in 1..Len(ret.results)}
                  = {sample[k] : k \in ok}
            /\ IF ok = {}
               THEN /\ ret.results = <<>>
                    /\ ret.error = "No samples could be processed successfully"
               ELSE "error" \notin DOMAIN ret

\* ten of twelve images taken; the second turn raises, another fails
\* without raising, and turns after them succeed
C12_Witness ==
    /\ BatchAnswered
    /\ Len(frame.image_files) = 12
    /\ Len(frame.sample_images) = 10
    /\ args.rnd[2].raised # "none"
    /\ BATCH_DATASET[args.sample_images[2]].decodable
    /\ \E k \in 3..9 : ~BatchSucceeds(k) /\ BatchSucceeds(k + 1)
    /\ Len(ret.results) = 7

\* C13: the results of the batch are in non-increasing order of
\* combined_risk_score, whatever the order of the sample.
C13_SortedByScore ==
    BatchAnswered =>
        \A i \in 1..(Len(ret.results) - 1) :
            RGe(ret.results[i].combined_risk_score,
                ret.results[i + 1].combined_risk_score)

\* results of different scores that the loop had met in another order
C13_Witness ==
    /\ BatchAnswered
    /\ Len(ret.results) >= 3
    /\ RGt(ret.results[1].combined_risk_score,
           ret.results[Len(ret.results)].combined_risk_score)
    /\ \E i, j \in 1..Len(frame.sample_images) :
          /\ i < j
          /\ frame.sample_images[i] = ret.results[2].image_name
          /\ frame.sample_images[j] = ret.results[1].image_name

\* the turn of the loop that gave the entry
TurnOf(entry) ==
    CHOOSE k \in 1..Len(args.sample_images) : args.sample_images[k] = entry.image_name

\* C14: the combined_risk_score the batch records for an image is the one
\* analyze_thermal_image computes from the same image and the same draws
\* (the same features, environment, coal properties and temperatures).
C14_BatchSameAsImagePipeline ==
    BatchAnswered =>
        \A i \in 1..Len(ret.results) :
            ret.results[i].combined_risk_score
              = analyze_thermal_image(BATCH_DATASET, ret.results[i].image_name,
                                      args.rnd[TurnOf(ret.results[i])]
                                     ).frame.combined_risk_score

-----------------------------------------------------------------------------
(* The statistics of analyze_thermal_image with and without a picture.     *)

\* rows of six temperatures
StatFields ==
    { << row >> : row \in [1..6 -> {RInt(20), RInt(90), RInt(130)}] }

\* the cells of the field that are hotter than mean + 2 * stddev
HotSpotCells(field) ==
    {c \in Cells(field) :
        /\ RGt(field[c[1]][c[2]], np_mean(field))
        /\ RGt(RMul(RSub(field[c[1]][c[2]], np_mean(field)),
                    RSub(field[c[1]][c[2]], np_mean(field))),
               RMul(RInt(4), np_var(field)))}

\* the cells of the field that are hotter than 80 degrees
CriticalCells(field) == {c \in Cells(field) : RGt(field[c[1]][c[2]], RInt(80))}

\* the answer to the same request when the picture is drawn
AnswerWithPicture ==
    analyze_thermal_image(DATASET, args.image_name,
                          [args.rnd EXCEPT !.visualization = "drawn"]).response.results

\* C15: whether create_thermal_visualization gives a picture, gives (none,
\* none) or raises, assess_thermal_risk is called after it with statistics
\* of all five fields, computed from the same temperature field by the same
\* definitions (hot_spot_count: the cells above mean + 2 stddev,
\* critical_area_percentage: 100 times the share of cells above 80), so
\* thermal score, combined score and category are those of the answer with
\* the picture; the picture alone is missing.  The two computations of the
\* statistics agree on every row of six temperatures (looked at between
\* two requests).
C15_SameStatisticsWithoutPicture ==
    /\ ThermalDone =>
          /\ DOMAIN frame.temp_stats
                = {"min_temp", "max_temp", "avg_temp", "hot_spot_count",
                   "critical_area_percentage"}
          /\ frame.temp_stats.min_temp = FieldMin(frame.temperature_map)
          /\ frame.temp_stats.max_temp = FieldMax(frame.temperature_map)
          /\ frame.temp_stats.avg_temp = np_mean(frame.temperature_map)
          /\ frame.temp_stats.hot_spot_count
                = Cardinality(HotSpotCells(frame.temperature_map))
          /\ frame.temp_stats.critical_area_percentage
                = R(100 * Cardinality(CriticalCells(frame.temperature_map)),
                    Cardinality(Cells(frame.temperature_map)))
          /\ frame.calls[5] = "create_thermal_visualization"
          /\ frame.calls[6] = "assess_thermal_risk"
          /\ frame.thermal_risk
                = assess_thermal_risk(frame.temperature_map, frame.temp_stats)
          /\ ret.results.thermal_analysis.temperature_stats
                = AnswerWithPicture.thermal_analysis.temperature_stats
          /\ ret.results.thermal_analysis.thermal_risk
                = AnswerWithPicture.thermal_analysis.thermal_risk
          /\ ret.results.combined_risk_assessment
                = AnswerWithPicture.combined_risk_assessment
          /\ ret.results.recommendations = AnswerWithPicture.recommendations
          /\ (ret.results.thermal_analysis.thermal_image = None)
                <=> (args.rnd.visualization # "drawn")
    /\ pc = "idle" =>
          \A field \in StatFields :
              /\ basic_temp_stats(field) = temp_stats_of(field)
              /\ temp_stats_of(field).hot_spot_count = Cardinality(HotSpotCells(field))

\* the drawing raised: no picture, a critical area and a thermal score all
\* the same
C15_Witness ==
    /\ ThermalDone
    /\ args.rnd.visualization = "raised"
    /\ ret.results.thermal_analysis.thermal_image = None
    /\ RGt(frame.temp_stats.critical_area_percentage, RInt(0))
    /\ frame.thermal_risk.thermal_risk_score >= 50

-----------------------------------------------------------------------------
(* The environment and the olpinski index in risk_assessment.              *)

\* the same call at 25 degrees and 1.0 m/s
CalmCall ==
    risk_assessment(args.cpt, args.li, args.wits, args.oi, RInt(25), RInt(1))

\* C16: risk_assessment adds 15 points and the factor 'High Ambient
\* Temperature' exactly when ambient_temp > 30 (30 itself adds nothing),
\* and 15 points and the factor 'Poor Ventilation' exactly when
\* ventilation_rate < 0.5 (0.5 itself adds nothing); each bonus is there
\* whatever the other one and whichever indices are present.
C16_EnvironmentBonuses ==
    RiskCalled =>
        LET hot == RGt(args.ambient_temp, RInt(30))
            still == RLt(args.ventilation_rate, R(5, 10))
            factors == str(ret.risk_factors)
        IN  /\ ret.risk_score - CalmCall.risk_score
                  = (IF hot THEN 15 ELSE 0) + (IF still THEN 15 ELSE 0)
            /\ Len(ret.risk_factors) - Len(CalmCall.risk_factors)
                  = (IF hot THEN 1 ELSE 0) + (IF still THEN 1 ELSE 0)
            /\ Contains(factors, <<"High", "Ambient", "Temperature">>) <=> hot
            /\ Contains(factors, <<"Poor", "Ventilation">>) <=> still
            /\ ~Contains(str(CalmCall.risk_factors), <<"High", "Ambient", "Temperature">>)
            /\ ~Contains(str(CalmCall.risk_factors), <<"Poor", "Ventilation">>)

\* the call just above 30 degrees with ventilation exactly 0.5 and every
\* index missing: the one bonus alone
C16_Witness ==
    /\ RiskCalled
    /\ args.ambient_temp = R(3001, 100) /\ args.ventilation_rate = R(5, 10)
    /\ args.cpt = None /\ args.li = None /\ args.wits = None
    /\ ret.risk_score = 15
    /\ Len(ret.risk_factors) = 1

\* C17: the olpinski index has no part in the scoring: two calls of
\* risk_assessment that differ in the olpinski argument alone (a number or
\* none) return the same overall_risk, risk_score, risk_factors and color.
C17_OlpinskiUnused ==
    RiskCalled =>
        \A oi \in OiArgs :
            ret = risk_assessment(args.cpt, args.li, args.wits, oi,
                                  args.ambient_temp, args.ventilation_rate)

\* a call with a numeric olpinski index and a score that the other
\* arguments make CRITICAL
C17_Witness ==
    /\ RiskCalled
    /\ args.oi = R(9, 10)
    /\ ret.overall_risk = "CRITICAL"

-----------------------------------------------------------------------------
(* The manual entry points.                                                *)

\* the operations of ThermalSimulator
SIMULATOR_OPERATIONS ==
    { "analyze_image_features", "generate_environmental_parameters",
      "generate_coal_properties_from_image", "simulate_thermal_distribution",
      "create_thermal_visualization", "assess_thermal_risk" }

\* C18: analyze and api_analyze take oxygen = 20.9, ambient_temp = 25 and
\* ventilation_rate = 1.0 for an input that is absent; with the two
\* environment inputs absent no environmental bonus is added; they return
\* a risk assessment and recommendations and call no operation of
\* ThermalSimulator.
C18_ManualDefaults ==
    ManualDone =>
        LET data == args.data
            res == ManualResults
            factors == str(res.risk_assessment.risk_factors)
        IN  /\ "oxygen" \notin DOMAIN data => frame.oxygen = R(209, 10)
            /\ "ambient_temp" \notin DOMAIN data => frame.ambient_temp = RInt(25)
            /\ "ventilation_rate" \notin DOMAIN data => frame.ventilation_rate = RInt(1)
            /\ "oxygen" \notin DOMAIN data =>
                  res.calculated_indices.wits_index
                    = wits_index(frame.moisture, frame.volatile_matter, frame.ash,
                                 R(209, 10))
            /\ ("ambient_temp" \notin DOMAIN data
                /\ "ventilation_rate" \notin DOMAIN data) =>
                  /\ ~Contains(factors, <<"High", "Ambient", "Temperature">>)
                  /\ ~Contains(factors, <<"Poor", "Ventilation">>)
                  /\ res.risk_assessment.risk_score
                        = cpt_band(res.calculated_indices.cpt).points
                          + li_band(res.calculated_indices.liability_index).points
                          + wits_band(res.calculated_indices.wits_index).points
            /\ {"overall_risk", "risk_score", "risk_factors", "color"}
                  \subseteq DOMAIN res.risk_assessment
            /\ Len(res.recommendations) > 0
            /\ \A k \in 1..Len(frame.calls) : frame.calls[k] \notin SIMULATOR_OPERATIONS

\* a request to /api/analyze with the proximate values alone
C18_Witness ==
    /\ ManualDone
    /\ op = "api_analyze"
    /\ DOMAIN args.data = {"moisture", "volatile_matter", "ash", "fixed_carbon"}
    /\ args.data.moisture = RInt(10) /\ args.data.volatile_matter = RInt(35)
    /\ args.data.ash = RInt(15)
    /\ frame.oxygen = R(209, 10)
    /\ ret.json.calculated_indices.wits_index = R(5878, 100)

-----------------------------------------------------------------------------
(* Calls of generate_environmental_parameters.                             *)

\* no features, the features of a dark, rough picture of many particles,
\* those of a bright, smooth one
EnvFeatures ==
    { None,
      [avg_brightness |-> RInt(51), texture_variance |-> RInt(700),
       avg_particle_size |-> RInt(30), particle_count |-> 150],
      [avg_brightness |-> RInt(200), texture_variance |-> RInt(400),
       avg_particle_size |-> RInt(80), particle_count |-> 50],
      [avg_brightness |-> RInt(80), texture_variance |-> RInt(500),
       avg_particle_size |-> RInt(50), particle_count |-> 100],
      [avg_brightness |-> R(799, 10), texture_variance |-> RInt(500),
       avg_particle_size |-> RInt(50), particle_count |-> 101],
      [avg_brightness |-> RInt(80), texture_variance |-> R(5001, 10),
       avg_particle_size |-> RInt(50), particle_count |-> 0] }

\* names of the catalogue and names it does not hold
ScenarioNames ==
    {"normal", "hot_day", "humid", "poor_ventilation", "tropical", "NORMAL", ""}

\* the four draws of the scenario each at its own position, the others at
\* a common one
EnvDraws ==
    { [k \in {"temp", "humidity", "wind", "oxygen", "pressure", "pile", "duration",
              "dark_temp", "rough_wind", "particle_pile"} |->
          CASE k = "temp" -> q[1] [] k = "humidity" -> q[2] [] k = "wind" -> q[3]
            [] k = "oxygen" -> q[4] [] OTHER -> q[5]] :
        q \in [1..5 -> Levels] }

Call_generate_environmental_parameters ==
    /\ pc = "idle"
    /\ \E image_features \in EnvFeatures, base_scenario \in ScenarioNames,
          u \in EnvDraws :
         Called("generate_environmental_parameters",
                [image_features |-> image_features, base_scenario |-> base_scenario,
                 u |-> u],
                generate_environmental_parameters(image_features, base_scenario, u),
                <<>>)

NextEnv == Call_generate_environmental_parameters \/ Return

SpecEnv == Init /\ [][NextEnv]_vars

\* generate_environmental_parameters was called with a name that is none
\* of the four scenarios
UnknownScenarioCalled ==
    /\ pc = "done" /\ op = "generate_environmental_parameters"
    /\ args.base_scenario \notin {"normal", "hot_day", "humid", "poor_ventilation"}

\* the value at the position p of the range from a to b
Between(a, b, p) == RAdd(a, RMul(p, RSub(b, a)))

\* C19: with a scenario name outside {normal, hot_day, humid,
\* poor_ventilation} generate_environmental_parameters does not fail and
\* draws from the ranges of normal: ambient temperature [20,30], humidity
\* [40,70], wind speed [0.5,2.0], oxygen [20.5,21.0], before the
\* adjustments for the features of the image.
C19_UnknownScenarioIsNormal ==
    UnknownScenarioCalled =>
        LET plain == generate_environmental_parameters(None, args.base_scenario, args.u)
        IN  /\ DOMAIN ret = {"ambient_temperature", "relative_humidity", "wind_speed",
                             "oxygen_content", "atmospheric_pressure", "pile_height",
                             "storage_duration"}
            /\ ret = generate_environmental_parameters(args.image_features, "normal",
                                                       args.u)
            /\ plain.ambient_temperature = Between(RInt(20), RInt(30), args.u.temp)
            /\ plain.relative_humidity = Between(RInt(40), RInt(70), args.u.humidity)
            /\ plain.wind_speed = Between(R(5, 10), RInt(2), args.u.wind)
            /\ plain.oxygen_content = Between(R(205, 10), RInt(21), args.u.oxygen)
            /\ ret.relative_humidity = plain.relative_humidity
            /\ ret.oxygen_content = plain.oxygen_content
            /\ args.image_features = None => ret = plain
            /\ RGe(ret.ambient_temperature, plain.ambient_temperature)
            /\ RLe(ret.wind_speed, plain.wind_speed)

\* the scenario 'tropical' without features, drawn at the upper end of the
\* temperatures and the lower end of the winds of normal
C19_Witness ==
    /\ UnknownScenarioCalled
    /\ args.base_scenario = "tropical"
    /\ args.image_features = None
    /\ ret.ambient_temperature = RInt(30)
    /\ ret.wind_speed = R(5, 10)
    /\ ret.relative_humidity = RInt(40)

-----------------------------------------------------------------------------
(* Failures inside generate_coal_properties_from_image.                    *)

\* the call was made without env_params or with features that lack a field
CoalFailed ==
    /\ CoalCalled
    /\ \/ args.env_params = None
       \/ /\ args.image_features # None
          /\ DOMAIN args.image_features
                # {"avg_brightness", "texture_variance", "avg_particle_size",
                   "particle_count"}

\* the rest of analyze_thermal_image, from the simulation on, for the
\* picture coal_dark.jpg in the scenario normal with these coal properties
PipelineAfter(coal_properties) ==
    simulation_stage(
        [image_name |-> "coal_dark.jpg",
         image_features |->
            analyze_image_features(DATASET["coal_dark.jpg"],
                                   [texture_variance |-> RInt(400),
                                    avg_particle_size |-> RInt(80),
                                    particle_count |-> 50]),
         scenario |-> "normal",
         env_params |-> Env(RInt(25), RInt(55), RInt(1), R(209, 10), RInt(100),
                            RInt(3), 10),
         coal_properties |-> coal_properties,
         calls |-> SubSeq(STAGE_ORDER, 1, 4)],
        simulate_thermal_distribution(
            DATASET["coal_dark.jpg"],
            Env(RInt(25), RInt(55), RInt(1), R(209, 10), RInt(100), RInt(3), 10),
            CHOOSE sim \in SimProfiles(DATASET["coal_dark.jpg"]) :
                Len(sim.spots) = 3 /\ sim.diffusion_weight[1][1] = RInt(1)),
        "drawn")

\* C20: when a step inside generate_coal_properties_from_image fails (a
\* field of the features or the environment is missing) no error gets out
\* of it: it returns moisture 10, volatile_matter 35, ash 15, fixed_carbon
\* 40, which sum to 100 and lie within every floor and ceiling, and the
\* image pipeline goes on with these values to its results.
C20_CoalFallback ==
    CoalFailed =>
        /\ ret = [moisture |-> RInt(10), volatile_matter |-> RInt(35),
                  ash |-> RInt(15), fixed_carbon |-> RInt(40)]
        /\ properties_total(ret) = RInt(100)
        /\ ret = bounded_properties(ret)
        /\ PipelineAfter(ret).response.status = 200
        /\ PipelineAfter(ret).response.results.coal_properties = ret
        /\ PipelineAfter(ret).frame.calls = STAGE_ORDER
        /\ PipelineAfter(ret).frame.cpt
              = crossing_point_temperature(RInt(10), RInt(35), RInt(15), RInt(40))
        /\ PipelineAfter(ret).frame.li = liability_index(RInt(10), RInt(35), RInt(15))

\* a call with features that hold the brightness alone
C20_Witness ==
    /\ CoalFailed
    /\ args.env_params # None
    /\ args.image_features = [avg_brightness |-> RInt(59)]
    /\ ret.fixed_carbon = RInt(40)

-----------------------------------------------------------------------------
(* The thermal field of simulate_thermal_distribution.                     *)

SimulationReturned ==
    pc = "done" /\ op = "simulate_thermal_distribution" /\ ret.thermal_map # None

\* C21: every cell of the thermal field returned by
\* simulate_thermal_distribution is in [0,1] and is
\* clip(base_diffusion + 0.4 * hot_spot_field, 0, 1), for every base
\* diffusion field with cells in [0,1] and every 3 to 12 hot spots with
\* intensities in [0.6, 1.0].
C21_ThermalFieldInUnitRange ==
    SimulationReturned =>
        LET base == heat_diffusion_of(args.image, frame.rnd)
            hot == hot_spots_of(args.image, frame.rnd)
        IN  /\ Len(frame.rnd.spots) \in 3..12
            /\ \A k \in 1..Len(frame.rnd.spots) :
                  /\ RLe(R(6, 10), frame.rnd.spots[k].intensity)
                  /\ RLe(frame.rnd.spots[k].intensity, RInt(1))
            /\ Shape(ret.thermal_map) = Shape(base)
            /\ \A c \in Cells(ret.thermal_map) :
                  /\ RLe(RInt(0), base[c[1]][c[2]]) /\ RLe(base[c[1]][c[2]], RInt(1))
                  /\ RLe(RInt(0), ret.thermal_map[c[1]][c[2]])
                  /\ RLe(ret.thermal_map[c[1]][c[2]], RInt(1))
                  /\ ret.thermal_map[c[1]][c[2]]
                        = clip(RAdd(base[c[1]][c[2]], RMul(hot[c[1]][c[2]], R(4, 10))),
                               RInt(0), RInt(1))

\* a field of which one cell was cut down to 1 and another was left below 1
C21_Witness ==
    /\ SimulationReturned
    /\ \E c \in Cells(ret.thermal_map) :
          /\ RGt(RAdd(heat_diffusion_of(args.image, frame.rnd)[c[1]][c[2]],
                      RMul(hot_spots_of(args.image, frame.rnd)[c[1]][c[2]], R(4, 10))),
                 RInt(1))
          /\ ret.thermal_map[c[1]][c[2]] = RInt(1)
    /\ \E c \in Cells(ret.thermal_map) :
          /\ RGt(ret.thermal_map[c[1]][c[2]], RInt(0))
          /\ RLt(ret.thermal_map[c[1]][c[2]], RInt(1))

-----------------------------------------------------------------------------
(* The ranges of generate_environmental_parameters.                        *)

EnvironmentReturned == pc = "done" /\ op = "generate_environmental_parameters"

InRange(x, range) == RLe(range[1], x) /\ RLe(x, range[2])

\* the ranges the call draws from: those of its scenario, or of normal
ScenarioOf(base_scenario) ==
    IF base_scenario \in {"normal", "hot_day", "humid", "poor_ventilation"}
    THEN scenarios[base_scenario] ELSE scenarios["normal"]

\* C22: generate_environmental_parameters returns ambient_temperature in
\* the temperature range of the scenario, raised by an amount in [2,8]
\* exactly when features are present with avg_brightness < 80; wind_speed
\* in the wind range, multiplied by a factor in [0.7,0.9] exactly when
\* texture_variance > 500, and always > 0; pile_height in [2,8], raised by
\* an amount in [0.5,2] exactly when particle_count > 100; humidity and
\* oxygen in the ranges of the scenario, pressure in [98,102] and
\* storage_duration an integer in [1,30], none of them adjusted; nothing is
\* clamped after the adjustment.
C22_EnvironmentRanges ==
    EnvironmentReturned =>
        LET f == args.image_features
            scenario == ScenarioOf(args.base_scenario)
            plain == generate_environmental_parameters(None, args.base_scenario, args.u)
            dark == f # None /\ RLt(f.avg_brightness, RInt(80))
            rough == f # None /\ RGt(f.texture_variance, RInt(500))
            many == f # None /\ f.particle_count > 100
        IN  /\ InRange(plain.ambient_temperature, scenario.temp_range)
            /\ InRange(plain.wind_speed, scenario.wind_range)
            /\ InRange(plain.pile_height, <<RInt(2), RInt(8)>>)
            /\ IF dark
               THEN InRange(RSub(ret.ambient_temperature, plain.ambient_temperature),
                            <<RInt(2), RInt(8)>>)
               ELSE ret.ambient_temperature = plain.ambient_temperature
            /\ IF rough
               THEN InRange(ret.wind_speed, <<RMul(R(7, 10), plain.wind_speed),
                                              RMul(R(9, 10), plain.wind_speed)>>)
               ELSE ret.wind_speed = plain.wind_speed
            /\ RGt(ret.wind_speed, RInt(0))
            /\ IF many
               THEN InRange(RSub(ret.pile_height, plain.pile_height),
                            <<R(5, 10), RInt(2)>>)
               ELSE ret.pile_height = plain.pile_height
            /\ InRange(ret.relative_humidity, scenario.humidity_range)
            /\ InRange(ret.oxygen_content, scenario.oxygen_range)
            /\ InRange(ret.atmospheric_pressure, <<RInt(98), RInt(102)>>)
            /\ ret.storage_duration \in 1..30
            /\ ret.relative_humidity = plain.relative_humidity
            /\ ret.oxygen_content = plain.oxygen_content
            /\ ret.atmospheric_pressure = plain.atmospheric_pressure
            /\ ret.storage_duration = plain.storage_duration

\* a dark image of many particles with smooth texture: the temperature is
\* above the range of the scenario and the pile above 8 m, the wind is as
\* drawn
C22_Witness ==
    /\ EnvironmentReturned
    /\ args.image_features # None
    /\ args.base_scenario = "humid"
    /\ RLt(args.image_features.avg_brightness, RInt(80))
    /\ ~RGt(args.image_features.texture_variance, RInt(500))
    /\ RGt(ret.ambient_temperature, RInt(35))
    /\ RGt(ret.pile_height, RInt(8))
    /\ ret.wind_speed = R(1, 10)

-----------------------------------------------------------------------------
(* The two recommendations that depend on the texts of the risk factors.   *)

VENTILATION_RECOMMENDATION == "Install or upgrade ventilation systems immediately"
COOLING_RECOMMENDATION == "Implement cooling measures during hot weather"

Includes(recommendations, text) ==
    \E k \in 1..Len(recommendations) : recommendations[k] = text

\* every list of factors that assess_thermal_risk can build from the
\* statistics of SpecThermalRisk
ThermalFactorLists ==
    { max_temp_band(mt).factors \o avg_temp_band(at).factors
        \o critical_area_band(ca).factors \o hot_spot_band(hs).factors :
          mt \in MaxTempArgs, at \in AvgTempArgs, ca \in CriticalAreaArgs,
          hs \in HotSpotArgs }

\* C23: generate_recommendations includes 'Install or upgrade ventilation
\* systems immediately' exactly when the poor-ventilation factor was
\* triggered (ventilation or wind below 0.5) and 'Implement cooling
\* measures during hot weather' exactly when the high-ambient-temperature
\* factor was triggered (ambient above 30); on the combined path no text of
\* a thermal factor triggers either of them.
C23_RecommendationTriggers ==
    /\ ManualDone =>
          /\ Includes(ManualResults.recommendations, VENTILATION_RECOMMENDATION)
                <=> RLt(frame.ventilation_rate, R(5, 10))
          /\ Includes(ManualResults.recommendations, COOLING_RECOMMENDATION)
                <=> RGt(frame.ambient_temp, RInt(30))
          /\ ManualResults.recommendations
                = generate_recommendations(ManualResults.risk_assessment.overall_risk,
                                           ManualResults.risk_assessment.risk_factors,
                                           ManualResults.calculated_indices.cpt)
    /\ ThermalDone =>
          /\ Includes(ret.results.recommendations, VENTILATION_RECOMMENDATION)
                <=> RLt(frame.env_params.wind_speed, R(5, 10))
          /\ Includes(ret.results.recommendations, COOLING_RECOMMENDATION)
                <=> RGt(frame.env_params.ambient_temperature, RInt(30))
          /\ \A text \in {VENTILATION_RECOMMENDATION, COOLING_RECOMMENDATION} :
                Includes(generate_recommendations(frame.overall_risk,
                                                  frame.all_risk_factors, frame.cpt), text)
                <=> Includes(generate_recommendations(frame.overall_risk,
                                                      frame.standard_risk.risk_factors,
                                                      frame.cpt), text)
    /\ pc = "idle" =>
          \A factors \in ThermalFactorLists :
             /\ ~Includes(generate_recommendations("LOW", factors, None),
                          VENTILATION_RECOMMENDATION)
             /\ ~Includes(generate_recommendations("LOW", factors, None),
                          COOLING_RECOMMENDATION)

\* an image analysis in calm air below 30 degrees whose factors hold
\* 'High average temperature': the ventilation recommendation is given, the
\* cooling recommendation is not
C23_Witness ==
    /\ ThermalDone
    /\ RLt(frame.env_params.wind_speed, R(5, 10))
    /\ ~RGt(frame.env_params.ambient_temperature, RInt(30))
    /\ \E k \in 1..Len(frame.thermal_risk.thermal_risk_factors) :
          SubSeq(frame.thermal_risk.thermal_risk_factors[k], 1, 3)
             = <<"High", "average", "temperature">>
    /\ Includes(ret.results.recommendations, VENTILATION_RECOMMENDATION)
    /\ ~Includes(ret.results.recommendations, COOLING_RECOMMENDATION)

-----------------------------------------------------------------------------
(* Requests served at the same time.  app.run (app.py:653) starts the      *)
(* threaded server of Flask, so two requests for analyze_thermal_image can *)
(* be inside create_thermal_visualization (thermal_simulator.py:229-285)   *)
(* together.  Its plt.* calls act on the figures of matplotlib.pyplot,     *)
(* which belong to the process: pyplot.open is the set of open figures,    *)
(* the current one being the latest opened of them, and pyplot.content[n]  *)
(* is what was drawn on figure n.  frame[t] holds the line thread t is at, *)
(* the figure of its plt.subplots and the picture it saved.  In the other  *)
(* specifications a call runs alone and the figures are not followed.      *)

MaxFigures == 8

Threads == {1, 2}

\* the images of the two requests
FigureRequests ==
    [Threads -> [image_name : {"coal_dark.jpg", "coal_mixed.jpg"}]]

BLANK == "blank"

NewFigure(p) ==
    [open |-> p.open \cup {Len(p.content) + 1}, content |-> Append(p.content, BLANK)]

\* plt.gcf(): the current figure, opened first if there is none
Gcf(p) == IF p.open = {} THEN NewFigure(p) ELSE p

Current(p) == CHOOSE n \in p.open : \A k \in p.open : k <= n

At(t, line) == pc = "serving" /\ frame[t].line = line

Goto(t, line, new) ==
    frame' = [frame EXCEPT ![t] = Set(Set(frame[t], new), [line |-> line])]

Serve ==
    /\ pc = "idle"
    /\ Len(pyplot.content) + 6 <= MaxFigures
    /\ \E requests \in FigureRequests :
          /\ args' = requests
          /\ frame' = [t \in Threads |->
                          [line |-> "switch_backend", fig |-> 0, thermal_image_b64 |-> None]]
    /\ pc' = "serving"
    /\ op' = "create_thermal_visualization"
    /\ UNCHANGED <<analysis_results, temp_ranges, pyplot, ret>>

\* line 235: plt.switch_backend('Agg'), which closes every figure in some
\* versions of matplotlib and none in others
SwitchBackend ==
    \E t \in Threads :
        /\ At(t, "switch_backend")
        /\ \E closes \in BOOLEAN :
              pyplot' = IF closes THEN [pyplot EXCEPT !.open = {}] ELSE pyplot
        /\ Goto(t, "subplots", <<>>)
        /\ UNCHANGED <<analysis_results, temp_ranges, pc, op, args, ret>>

\* line 238: fig, axes = plt.subplots(1, 3, ...)
Subplots ==
    \E t \in Threads :
        /\ At(t, "subplots")
        /\ pyplot' = NewFigure(pyplot)
        /\ Goto(t, "imshow", [fig |-> Len(pyplot.content) + 1])
        /\ UNCHANGED <<analysis_results, temp_ranges, pc, op, args, ret>>

\* lines 241-256: the three pictures are drawn on the axes of fig
Imshow ==
    \E t \in Threads :
        /\ At(t, "imshow")
        /\ pyplot' = [pyplot EXCEPT !.content[frame[t].fig] = args[t].image_name]
        /\ Goto(t, "colorbar", <<>>)
        /\ UNCHANGED <<analysis_results, temp_ranges, pc, op, args, ret>>

\* lines 241-256 raise: the except clause of line 283 returns (None, None)
\* and the figure stays open
ImshowRaises ==
    \E t \in Threads :
        /\ At(t, "imshow")
        /\ Goto(t, "returned", <<>>)
        /\ UNCHANGED <<analysis_results, temp_ranges, pyplot, pc, op, args, ret>>

\* lines 259-262: plt.colorbar and plt.tight_layout take the current figure
Colorbar ==
    \E t \in Threads :
        /\ At(t, "colorbar")
        /\ pyplot' = Gcf(pyplot)
        /\ Goto(t, "savefig", <<>>)
        /\ UNCHANGED <<analysis_results, temp_ranges, pc, op, args, ret>>

\* lines 265-269: plt.savefig writes the current figure to the buffer
Savefig ==
    \E t \in Threads :
        /\ At(t, "savefig")
        /\ pyplot' = Gcf(pyplot)
        /\ Goto(t, "close",
                [thermal_image_b64 |-> <<Gcf(pyplot).content[Current(Gcf(pyplot))]>>])
        /\ UNCHANGED <<analysis_results, temp_ranges, pc, op, args, ret>>

\* line 270: plt.close() closes the current figure, if there is one
Close ==
    \E t \in Threads :
        /\ At(t, "close")
        /\ pyplot' = IF pyplot.open = {} THEN pyplot
                     ELSE [pyplot EXCEPT !.open = pyplot.open \ {Current(pyplot)}]
        /\ Goto(t, "returned", <<>>)
        /\ UNCHANGED <<analysis_results, temp_ranges, pc, op, args, ret>>

\* both calls have returned
Answer ==
    /\ pc = "serving"
    /\ \A t \in Threads : frame[t].line = "returned"
    /\ pc' = "done"
    /\ ret' = [t \in Threads |-> [thermal_image_b64 |-> frame[t].thermal_image_b64]]
    /\ UNCHANGED <<analysis_results, temp_ranges, pyplot, op, args, frame>>

NextFigures ==
    \/ Serve \/ SwitchBackend \/ Subplots \/ Imshow \/ ImshowRaises
    \/ Colorbar \/ Savefig \/ Close \/ Answer \/ Return

SpecFigures == Init /\ [][NextFigures]_vars

\* C24: no request changes state shared between requests: across any
\* sequence or interleaving of analyses analysis_results and temp_ranges
\* stay as they were constructed, so the picture of a request, when it has
\* one, shows its own image and depends on nothing but its own inputs.
C24_RequestsShareNoState ==
    /\ analysis_results = <<>>
    /\ temp_ranges = [safe |-> <<15, 35>>, watch |-> <<35, 50>>,
                      caution |-> <<50, 80>>, danger |-> <<80, 120>>,
                      critical |-> <<120, 200>>]
    /\ (pc = "done" /\ op = "create_thermal_visualization") =>
          \A t \in Threads :
             ret[t].thermal_image_b64 \in {None, <<args[t].image_name>>}

-----------------------------------------------------------------------------
(* The bounds of the crossing point temperature.                           *)

\* numbers far outside the percentages, and percentages
CptInputs == {RInt(-1000), RInt(0), RInt(35), RInt(100), RInt(1000)}

\* C25: crossing_point_temperature returns a value in [120, 200], never 0
\* and never None, so wherever CPT comes from it (manual, image and batch
\* analyses) the CPT band gives at least 10 points, the chemical score is at
\* least 10 and the list of risk factors is not empty.
C25_CptAlwaysScored ==
    /\ pc = "idle" =>
          \A m \in CptInputs, vm \in CptInputs, ash \in CptInputs, fc \in CptInputs :
             LET cpt == crossing_point_temperature(m, vm, ash, fc)
             IN  /\ cpt # None
                 /\ RLe(RInt(120), cpt) /\ RLe(cpt, RInt(200))
                 /\ cpt_band(cpt).points >= 10
                 /\ \A t \in AmbientArgs, v \in VentilationArgs :
                       /\ risk_assessment(cpt, None, None, None, t, v).risk_score >= 10
                       /\ risk_assessment(cpt, None, None, None, t, v).risk_factors # <<>>
    /\ ManualDone =>
          /\ RLe(RInt(120), ManualResults.calculated_indices.cpt)
          /\ RLe(ManualResults.calculated_indices.cpt, RInt(200))
          /\ ManualResults.risk_assessment.risk_score >= 10
          /\ ManualResults.risk_assessment.risk_factors # <<>>
    /\ ThermalDone =>
          /\ RLe(RInt(120), frame.cpt) /\ RLe(frame.cpt, RInt(200))
          /\ frame.standard_risk.risk_score >= 10
          /\ frame.standard_risk.risk_factors # <<>>

\* a manual analysis in which the liability and WITS indices give no
\* points: the points of the CPT band are the whole score
C25_Witness ==
    /\ ManualDone
    /\ ManualResults.risk_assessment.risk_score
          = cpt_band(ManualResults.calculated_indices.cpt).points
    /\ Len(ManualResults.risk_assessment.risk_factors) = 1

-----------------------------------------------------------------------------
(* The score and the factors of risk_assessment.                           *)

\* 1 for a component that added points, 0 for one that did not
Added(component) == IF component THEN 1 ELSE 0

\* C26: risk_factors holds exactly one entry per component that added
\* points (CPT, liability index, WITS, ambient temperature, ventilation: at
\* most five), risk_score is 0 exactly when risk_factors is empty, and
\* risk_score lies between 0 and 115: it is not cut off at 100, and it is
\* 115 when CPT < 140, liability index > 2.0, WITS > 5.0, ambient > 30 and
\* ventilation < 0.5 hold together.
C26_ScoreAndFactors ==
    RiskCalled =>
        /\ Len(ret.risk_factors)
              = Added(Truthy(args.cpt)) + Added(Truthy(args.li)) + Added(Truthy(args.wits))
                + Added(RGt(args.ambient_temp, RInt(30)))
                + Added(RLt(args.ventilation_rate, R(5, 10)))
        /\ Len(ret.risk_factors) <= 5
        /\ \A j, k \in 1..Len(ret.risk_factors) :
              j # k => ret.risk_factors[j] # ret.risk_factors[k]
        /\ ret.risk_score = 0 <=> ret.risk_factors = <<>>
        /\ ret.risk_score >= 5 * Len(ret.risk_factors)
        /\ ret.risk_score \in 0..115
        /\ ( /\ Truthy(args.cpt) /\ RLt(args.cpt, RInt(140))
             /\ Truthy(args.li) /\ RGt(args.li, RInt(2))
             /\ Truthy(args.wits) /\ RGt(args.wits, RInt(5))
             /\ RGt(args.ambient_temp, RInt(30))
             /\ RLt(args.ventilation_rate, R(5, 10)) )
           => ret.risk_score = 115

\* every component in its highest band: five factors and a score of 115
C26_Witness ==
    /\ RiskCalled
    /\ Truthy(args.cpt) /\ Truthy(args.li) /\ Truthy(args.wits)
    /\ RLt(args.cpt, RInt(140)) /\ RGt(args.li, RInt(2)) /\ RGt(args.wits, RInt(5))
    /\ Len(ret.risk_factors) = 5
    /\ ret.risk_score = 115
    /\ ret.overall_risk = "CRITICAL"

-----------------------------------------------------------------------------
(* The multipliers of simulate_thermal_distribution                        *)
(* (thermal_simulator.py:210-213) on the environments that                 *)
(* generate_environmental_parameters returns.                              *)

\* (relative_humidity - 50) / 200 alone
humidity_deficit(env_params) ==
    RDiv(RSub(env_params.relative_humidity, RInt(50)), RInt(200))

humidity_factor(env_params) ==
    RAdd(RInt(1), RDiv(RSub(env_params.relative_humidity, RInt(50)), RInt(200)))

wind_factor(env_params) ==
    RMax(R(5, 10), RSub(RInt(1), RDiv(env_params.wind_speed, RInt(5))))

pile_factor(env_params) ==
    RAdd(RInt(1), RDiv(RSub(env_params.pile_height, RInt(3)), RInt(10)))

duration_factor(env_params) ==
    RAdd(RInt(1), R(env_params.storage_duration - 1, 50))

temp_multiplier(env_params) ==
    RMul(RMul(humidity_factor(env_params), wind_factor(env_params)),
         RMul(pile_factor(env_params), duration_factor(env_params)))

\* a thermal field with cells at 0, 1/2 and 1
ThermalSample == << <<RInt(0), R(1, 2), RInt(1)>> >>

\* C27: for every EnvironmentParams that generate_environmental_parameters
\* returns, the four multipliers of simulate_thermal_distribution are
\* strictly positive (wind_factor >= 0.5, duration_factor >= 1), so the
\* unclipped temperature is at least ambient_temperature in every cell and
\* only the upper bound ambient_temperature + 180 of the clip changes a
\* value.
C27_PositiveMultipliers ==
    EnvironmentReturned =>
        LET unclipped == temperature_map_of_unclipped(ThermalSample, ret)
            clipped == temperature_map_of(ThermalSample, ret)
        IN  /\ RGt(humidity_factor(ret), RInt(0))
            /\ RGe(wind_factor(ret), R(5, 10))
            /\ RGt(pile_factor(ret), RInt(0))
            /\ RGe(duration_factor(ret), RInt(1))
            /\ RGt(temp_multiplier(ret), RInt(0))
            /\ \A c \in Cells(ThermalSample) :
                  /\ unclipped[c[1]][c[2]]
                        = RAdd(ret.ambient_temperature,
                               RMul(RMul(ThermalSample[c[1]][c[2]], RInt(150)),
                                    temp_multiplier(ret)))
                  /\ RGe(unclipped[c[1]][c[2]], ret.ambient_temperature)
                  /\ clipped[c[1]][c[2]]
                        = RMin(unclipped[c[1]][c[2]],
                               RAdd(ret.ambient_temperature, RInt(180)))

\* an environment adjusted for the features of the image, with humidity
\* below 50: the cell at 1 is cut down to ambient + 180, the cell at 1/2 is
\* left above ambient and the cell at 0 is at ambient
C27_Witness ==
    /\ EnvironmentReturned
    /\ args.image_features # None
    /\ RLt(ret.relative_humidity, RInt(50))
    /\ RGt(ret.pile_height, RInt(8))
    /\ RGt(temperature_map_of_unclipped(ThermalSample, ret)[1][3],
           RAdd(ret.ambient_temperature, RInt(180)))
    /\ temperature_map_of(ThermalSample, ret)[1][3]
          = RAdd(ret.ambient_temperature, RInt(180))
    /\ RLt(temperature_map_of(ThermalSample, ret)[1][2],
           RAdd(ret.ambient_temperature, RInt(180)))
    /\ temperature_map_of(ThermalSample, ret)[1][1] = ret.ambient_temperature

-----------------------------------------------------------------------------
(* The rescaling of crossing_point_temperature.                            *)

IndicesCalled == pc = "done" /\ op = "calculated_indices"

\* 150 + 0.3 ash - 0.5 volatile_matter + 0.2 moisture + 0.1 fixed_carbon
\* on the values as they are, bounded to [120, 200]
CptOfPercentages(moisture, volatile_matter, ash, fixed_carbon) ==
    RMax(RInt(120), RMin(RInt(200),
        RAdd(RAdd(RSub(RAdd(RInt(150), RMul(R(3, 10), ash)),
                       RMul(R(5, 10), volatile_matter)),
                  RMul(R(2, 10), moisture)),
             RMul(R(1, 10), fixed_carbon))))

Sum4(a, b, c, d) == RAdd(RAdd(a, b), RAdd(c, d))

Twice(x) == RMul(RInt(2), x)

\* C28: crossing_point_temperature rescales its four inputs to sum to 100
\* only when their sum is strictly greater than 100: a tuple summing to more
\* than 100 gives the CPT of its rescaling to sum 100 and the CPT of every
\* proportional tuple summing to more than 100; a tuple summing to 100 or
\* less is used unscaled, so proportional tuples with sums of at most 100
\* can give different CPTs.
C28_RescaledAbove100 ==
    /\ IndicesCalled =>
          LET m == args.moisture
              vm == args.volatile_matter
              ash == args.ash
              fc == args.fixed_carbon
              total == Sum4(m, vm, ash, fc)
          IN  IF RGt(total, RInt(100))
              THEN /\ ret.cpt = CptOfPercentages(RDiv(RMul(m, RInt(100)), total),
                                                 RDiv(RMul(vm, RInt(100)), total),
                                                 RDiv(RMul(ash, RInt(100)), total),
                                                 RDiv(RMul(fc, RInt(100)), total))
                   /\ ret.cpt = crossing_point_temperature(
                                   RDiv(RMul(m, RInt(100)), total),
                                   RDiv(RMul(vm, RInt(100)), total),
                                   RDiv(RMul(ash, RInt(100)), total),
                                   RDiv(RMul(fc, RInt(100)), total))
                   /\ ret.cpt = crossing_point_temperature(Twice(m), Twice(vm),
                                                           Twice(ash), Twice(fc))
              ELSE ret.cpt = CptOfPercentages(m, vm, ash, fc)
    /\ pc = "idle" =>
          \E m \in ProximateValues, vm \in ProximateValues, ash \in ProximateValues,
             fc \in ProximateValues :
             /\ RLe(Sum4(Twice(m), Twice(vm), Twice(ash), Twice(fc)), RInt(100))
             /\ crossing_point_temperature(m, vm, ash, fc)
                   # crossing_point_temperature(Twice(m), Twice(vm), Twice(ash), Twice(fc))

\* a tuple summing to more than 100 whose CPT, inside the bounds, is not
\* what the formula gives on the values as they are
C28_Witness ==
    /\ IndicesCalled
    /\ RGt(Sum4(args.moisture, args.volatile_matter, args.ash, args.fixed_carbon),
           RInt(100))
    /\ ret.cpt # CptOfPercentages(args.moisture, args.volatile_matter, args.ash,
                                  args.fixed_carbon)
    /\ RGt(ret.cpt, RInt(120)) /\ RLt(ret.cpt, RInt(200))

-----------------------------------------------------------------------------
(* The hot spots of simulate_thermal_distribution.                         *)

\* a hot spot as lines 192-195 draw it on the image
WithinImage(sp, image) ==
    /\ sp.x \in 20..(image.width - 20)
    /\ sp.y \in 20..(image.height - 20)
    /\ sp.size \in 15..40
    /\ RLe(R(6, 10), sp.intensity) /\ RLe(sp.intensity, RInt(1))

TooSmall(image) == image.decodable /\ (image.width < 40 \/ image.height < 40)

\* C29: every hot-spot centre chosen by simulate_thermal_distribution has
\* 20 <= x <= width - 20 and 20 <= y <= height - 20, with 3 to 12 spots,
\* radius an integer in [15,40] and intensity in [0.6,1.0]; for an image
\* with width or height below 40 no such centre exists, the simulation
\* returns (None, None) whatever it draws, and analyze_thermal_image answers
\* 'Could not simulate thermal distribution' although the features of the
\* image were extracted.
C29_HotSpotCentres ==
    /\ ThermalDone =>
          /\ ~TooSmall(DATASET[args.image_name])
          /\ Len(args.rnd.sim.spots) \in 3..12
          /\ \A k \in 1..Len(args.rnd.sim.spots) :
                WithinImage(args.rnd.sim.spots[k], DATASET[args.image_name])
    /\ ( /\ ThermalAnswered
         /\ args.image_name \in DOMAIN DATASET
         /\ TooSmall(DATASET[args.image_name]) ) =>
          /\ ErrorAnswer(500, "Could not simulate thermal distribution")
          /\ frame.image_features # None
          /\ frame.calls[Len(frame.calls)] = "simulate_thermal_distribution"
    /\ pc = "idle" =>
          \A image \in SimImages :
             /\ TooSmall(image) =>
                   /\ 20..(image.width - 20) = {} \/ 20..(image.height - 20) = {}
                   /\ \A env_params \in SimEnvs, rnd \in SimDraws(image) :
                         simulate_thermal_distribution(image, env_params, rnd)
                            = [thermal_map |-> None, temperature_map |-> None]
             /\ (image.decodable /\ ~TooSmall(image)) =>
                   \A rnd \in SimDraws(image) :
                      /\ Len(rnd.spots) \in 3..12
                      /\ \A k \in 1..Len(rnd.spots) : WithinImage(rnd.spots[k], image)
                      /\ simulate_thermal_distribution(
                            image, Env(RInt(25), RInt(50), RInt(1), R(209, 10), RInt(100),
                                       RInt(3), 1), rnd).thermal_map # None

\* a request for an image of 39 rows: its features were extracted and the
\* answer is the error of the simulation
C29_Witness ==
    /\ ThermalAnswered
    /\ args.image_name \in DOMAIN DATASET
    /\ DATASET[args.image_name].decodable
    /\ DATASET[args.image_name].height = 39
    /\ frame.image_features # None
    /\ ErrorAnswer(500, "Could not simulate thermal distribution")

-----------------------------------------------------------------------------
(* Calls of generate_recommendations.                                      *)

RiskLevels == {"CRITICAL", "HIGH", "MODERATE", "LOW"}

\* lists of factors as risk_assessment and assess_thermal_risk build them
FactorLists ==
    { c \o a \o v \o t :
        c \in {<<>>, cpt_band(RInt(130)).factors, cpt_band(RInt(170)).factors},
        a \in {<<>>, ambient_band(RInt(31)).factors},
        v \in {<<>>, ventilation_band(R(4, 10)).factors},
        t \in {<<>>, avg_temp_band(RInt(50)).factors} }

RecommendationCpts ==
    {None, RInt(0), RInt(120), R(14499, 100), RInt(145), RInt(200)}

Call_generate_recommendations ==
    /\ pc = "idle"
    /\ \E risk_level \in RiskLevels, risk_factors \in FactorLists,
          cpt \in RecommendationCpts :
         Called("generate_recommendations",
                [risk_level |-> risk_level, risk_factors |-> risk_factors, cpt |-> cpt],
                generate_recommendations(risk_level, risk_factors, cpt),
                <<>>)

NextRecommendations == Call_generate_recommendations \/ Return

SpecRecommendations == Init /\ [][NextRecommendations]_vars

RecommendationsCalled == pc = "done" /\ op = "generate_recommendations"

\* a factor of the list begins with the words
HasFactor(risk_factors, words) ==
    \E k \in 1..Len(risk_factors) :
        /\ Len(risk_factors[k]) >= Len(words)
        /\ SubSeq(risk_factors[k], 1, Len(words)) = words

IncludesAll(recommendations, texts) ==
    \A k \in 1..Len(texts) : Includes(recommendations, texts[k])

====
